---- MODULE Spec2Model ----
(***************************************************************************)
(* Model of the Minecells board generation core.                           *)
(*                                                                         *)
(* Part I  (Spec, FairSpec): the worker pool of BoardGenHub.worker and the *)
(*         controller of main.start_game, racing over a task queue, a      *)
(*         result queue and the shared halt_event.                         *)
(* Part II (GenSpec): one board generator (Standard, Chain, Space, Offset  *)
(*         or Puzzle) running its generation loop: Seed.generate_mines_list*)
(*         proposes candidates, _generate_board assembles the board and    *)
(*         the solver decides whether it is kept.                          *)
(***************************************************************************)
EXTENDS Integers, Sequences, FiniteSets, TLC

(***************************************************************************)
(* Bounds of the model.                                                    *)
(***************************************************************************)
\* number of worker processes (mp.cpu_count() on the modelled host)
NumWorkers == 2
\* number of batches the controller dispatches before the model stops it
MaxBatch == 2
\* number of distinct tiles the user may click to start a game
NumStarts == 2

\* size of the boards of Part II.  The settings screen asks for 5 to 99 rows
\* and columns (Validation.rows, Validation.cols); the generator and solver
\* classes take any size, and are run here on a smaller board.
n_rows == 3
n_cols == 5
\* largest mine count and space count a generator of Part II is constructed with
MaxMines == 2
MaxSpaces == 1
\* largest mine count a Chain generator is constructed with: two pairs of mines
MaxChainMines == 3
\* number of distinct start positions a generator of Part II is constructed with
GenStarts == 3
\* largest difficulty a Puzzle generator is constructed with
MaxDifficulty == 2
MaxUncheckedMines == 7
MaxShortSeed == 2
MaxCallMines == 22
MaxCallSpaces == 3
MaxOffsets == 8
\* most includes and most excludes handed to generate_mines_list in a call
MaxIncludes == 2
MaxExcludes == 1
\* most en_queue and de_queue calls made on one Queue
MaxQueueOps == 6
\* most rows and most variables of a matrix handed to _analyse_matrix
MaxMatRows == 2
MaxMatVars == 3
\* number of states of the pseudo-random generator of Part III
RngMod == 31
\* longest seed Seed.__init__ accepts, and the length of the seed it draws
MaxSeedLen == 10
FreshSeedLen == 10
\* the sides and the difficulties Validation.rows, Validation.cols and
\* Validation.difficulty accept
MinSide == 5
MaxSide == 99
DifficultyLimit == 5
\* the side of the grid Validation.offset fills
TestGrid == 10

Workers == 1..NumWorkers
StartPositions == 1..NumStarts

VARIABLES
    \* ---- Part I: worker pool and controller ----
    task_queue,      \* mp.Queue of tasks, oldest first
    result_queue,    \* mp.Queue of (board, revealed_tiles) results, oldest first
    halt_event,      \* mp.Event shared by every worker
    wpc,             \* position of each worker in BoardGenHub.worker
    wtask,           \* the task a worker is running
    wboard,          \* board_gen._board of the generator a worker runs
    cpc,             \* position of the controller in main.start_game
    ci,              \* loop index i of the dispatch loop
    batch,           \* number of batches dispatched so far
    start_position,  \* the tile clicked for the current game
    generator,       \* main.generator, the variant chosen on the settings screen
    cboard,          \* main.board, the board last read from result_queue
    published,       \* history: batch -> the result read for that batch
    setters,         \* history: <<batch, worker>> pairs that executed start_event.set()
    putters,         \* history: <<batch, worker>> pairs that put a result
    \* ---- Part II: one board generator ----
    params,          \* constructor arguments: variant, start_pos, minecount, space_count, directions
    mine_positions,  \* self._mine_positions
    board,           \* self._board
    spaces,          \* the loop variable spaces of generate_no_guess_board
    mines,           \* the loop variable mines: the mines the last solve deduced
    count,           \* the loop variable count
    fails,           \* history: the solves that failed since the last full reset
    revealed_tiles,  \* the loop variable revealed_tiles of the Puzzle generator
    new_positions,   \* the loop variable new_positions of the Puzzle generator
    gpc,             \* position in generate_no_guess_board
    \* ---- Part III: two seeded generators stepped together ----
    twin,            \* the inputs and the state of the two copies
    \* ---- Part IV: the functions that take a request's parameters ----
    call,            \* the call made: the function, its arguments, what it returned
    \* ---- Part V: one run of a solver, pass by pass ----
    slv              \* the local variables of solve and what its last pass found

hubVars == <<task_queue, result_queue, halt_event, wpc, wtask, wboard, cpc, ci,
             batch, start_position, generator, cboard, published, setters, putters>>

genVars == <<params, mine_positions, board, spaces, mines, count, fails,
             revealed_tiles, new_positions, gpc>>

auxVars == <<twin, call, slv>>

vars == <<hubVars, genVars, auxVars>>

(***************************************************************************)
(* Part I: data                                                            *)
(***************************************************************************)
\* A task as the pool sees it: the batch it was dispatched in, the start
\* position, the variant and the process_count its generator is constructed
\* with (the seed and the sizes are the same in every task of a session)
NoTask == [batch |-> 0, start |-> 0, generator |-> "", process_count |-> 0]

\* A board as the pool sees it: who built it and what the generator did last.
\*   assembled : _generate_board has run at least once (else every cell is -2)
\*   solvable  : the last solver call on this board returned solvable = True
\*   cancelled : the generation loop ended because start_event was seen set
NewBoard(t, w) ==
    [batch |-> t.batch, worker |-> w, start |-> t.start,
     assembled |-> FALSE, solvable |-> FALSE, cancelled |-> FALSE]

NoBoard == NewBoard(NoTask, 0)

\* pcs at which a worker is inside generate_no_guess_board_parallel
LoopPcs == {"loop", "iterate", "check", "set"}

InitHub ==
    /\ task_queue = <<>>
    /\ result_queue = <<>>
    /\ halt_event = FALSE
    /\ wpc = [w \in Workers |-> "get"]
    /\ wtask = [w \in Workers |-> NoTask]
    /\ wboard = [w \in Workers |-> NoBoard]
    /\ cpc = "idle"
    /\ ci = 0
    /\ batch = 0
    /\ start_position = 0
    /\ generator = ""
    /\ cboard = NoBoard
    /\ published = <<>>
    /\ setters = {}
    /\ putters = {}

ctlVars == <<cpc, ci, batch, start_position, generator, cboard, published>>

(***************************************************************************)
(* Part I: BoardGenHub.worker                                              *)
(***************************************************************************)
\* task = task_queue.get()
WorkerGet(w) ==
    /\ wpc[w] = "get"
    /\ task_queue # <<>>
    /\ wtask' = [wtask EXCEPT ![w] = Head(task_queue)]
    /\ task_queue' = Tail(task_queue)
    /\ wpc' = [wpc EXCEPT ![w] = "clear"]
    /\ UNCHANGED <<result_queue, halt_event, wboard, setters, putters>>
    /\ UNCHANGED <<ctlVars, genVars, auxVars>>

\* halt_event.clear(), then gen_board_parallel constructs the generator
WorkerClear(w) ==
    /\ wpc[w] = "clear"
    /\ halt_event' = FALSE
    /\ wboard' = [wboard EXCEPT ![w] = NewBoard(wtask[w], w)]
    /\ wpc' = [wpc EXCEPT ![w] = "loop"]
    /\ UNCHANGED <<task_queue, result_queue, wtask, setters, putters>>
    /\ UNCHANGED <<ctlVars, genVars, auxVars>>

\* while not start_event.is_set():
WorkerLoop(w) ==
    /\ wpc[w] = "loop"
    /\ IF halt_event
         THEN /\ wboard' = [wboard EXCEPT ![w].cancelled = TRUE]
              /\ wpc' = [wpc EXCEPT ![w] = "put"]
         ELSE /\ wboard' = wboard
              /\ wpc' = [wpc EXCEPT ![w] = "iterate"]
    /\ UNCHANGED <<task_queue, result_queue, halt_event, wtask, setters, putters>>
    /\ UNCHANGED <<ctlVars, genVars, auxVars>>

\* one pass of the loop body: _reset_board, _generate_board, _solver.solve
WorkerIterate(w) ==
    /\ wpc[w] = "iterate"
    /\ \E solvable \in BOOLEAN :
         /\ wboard' = [wboard EXCEPT ![w].assembled = TRUE, ![w].solvable = solvable]
         /\ wpc' = [wpc EXCEPT ![w] = IF solvable THEN "check" ELSE "loop"]
    /\ UNCHANGED <<task_queue, result_queue, halt_event, wtask, setters, putters>>
    /\ UNCHANGED <<ctlVars, genVars, auxVars>>

\* if solvable: if not start_event.is_set():
WorkerCheck(w) ==
    /\ wpc[w] = "check"
    /\ wpc' = [wpc EXCEPT ![w] = IF halt_event THEN "put" ELSE "set"]
    /\ UNCHANGED <<task_queue, result_queue, halt_event, wtask, wboard, setters, putters>>
    /\ UNCHANGED <<ctlVars, genVars, auxVars>>

\* start_event.set(); break
WorkerSet(w) ==
    /\ wpc[w] = "set"
    /\ halt_event' = TRUE
    /\ setters' = setters \cup {<<wtask[w].batch, w>>}
    /\ wpc' = [wpc EXCEPT ![w] = "put"]
    /\ UNCHANGED <<task_queue, result_queue, wtask, wboard, putters>>
    /\ UNCHANGED <<ctlVars, genVars, auxVars>>

\* gen_board_parallel returns (board, revealed_tiles); the worker puts every
\* result that is not None
gen_board_parallel(board_gen) == <<board_gen, "None">>

\* the value None, which no (board, revealed_tiles) tuple equals
NoneResult == <<>>

WorkerPut(w) ==
    /\ wpc[w] = "put"
    /\ LET result == gen_board_parallel(wboard[w])
       IN  IF result # NoneResult
             THEN /\ result_queue' = Append(result_queue, result[1])
                  /\ putters' = putters \cup {<<wtask[w].batch, w>>}
             ELSE /\ UNCHANGED <<result_queue, putters>>
    /\ wpc' = [wpc EXCEPT ![w] = "get"]
    /\ UNCHANGED <<task_queue, halt_event, wtask, wboard, setters>>
    /\ UNCHANGED <<ctlVars, genVars, auxVars>>

worker(w) ==
    \/ WorkerGet(w)
    \/ WorkerClear(w)
    \/ WorkerLoop(w)
    \/ WorkerIterate(w)
    \/ WorkerCheck(w)
    \/ WorkerSet(w)
    \/ WorkerPut(w)

(***************************************************************************)
(* Part I: main.start_game for the variants that start from a clicked tile *)
(***************************************************************************)
\* the variants whose boards are generated when the user clicks a tile
HubGenerators == {"Standard", "Chain", "Offset", "Space"}

\* the last argument of the task main.start_game puts for loop index i: the
\* cases "offset" and "space" end the tuple with self.spaces or
\* self.offset_directions and leave process_count at its default, the default
\* case ends it with i
TaskProcessCount(variant, i) == IF variant \in {"Offset", "Space"} THEN 0 ELSE i

wrkVars == <<halt_event, wpc, wtask, wboard, setters, putters>>

\* the user clicks a tile: start_game(start_position)
StartGame ==
    /\ cpc = "idle"
    /\ batch < MaxBatch
    /\ \E p \in StartPositions : start_position' = p
    /\ \E g \in HubGenerators : generator' = g
    /\ batch' = batch + 1
    /\ cpc' = "clear_task"
    /\ UNCHANGED <<task_queue, result_queue, ci, cboard, published>>
    /\ UNCHANGED <<wrkVars, genVars, auxVars>>

\* clear_queue(self.task_queue): get_nowait() until Empty
ClearTaskQueue ==
    /\ cpc = "clear_task"
    /\ IF task_queue # <<>>
         THEN /\ task_queue' = Tail(task_queue)
              /\ cpc' = cpc
         ELSE /\ task_queue' = task_queue
              /\ cpc' = "clear_result"
    /\ UNCHANGED <<result_queue, ci, batch, start_position, generator, cboard, published>>
    /\ UNCHANGED <<wrkVars, genVars, auxVars>>

\* clear_queue(self.result_queue)
ClearResultQueue ==
    /\ cpc = "clear_result"
    /\ IF result_queue # <<>>
         THEN /\ result_queue' = Tail(result_queue)
              /\ cpc' = cpc
              /\ ci' = ci
         ELSE /\ result_queue' = result_queue
              /\ cpc' = "dispatch"
              /\ ci' = 0
    /\ UNCHANGED <<task_queue, batch, start_position, generator, cboard, published>>
    /\ UNCHANGED <<wrkVars, genVars, auxVars>>

\* for i in range(mp.cpu_count()): self.task_queue.put((gen_board_parallel, ...))
Dispatch ==
    /\ cpc = "dispatch"
    /\ IF ci < NumWorkers
         THEN /\ task_queue' = Append(task_queue,
                     [batch |-> batch, start |-> start_position,
                      generator |-> generator,
                      process_count |-> TaskProcessCount(generator, ci)])
              /\ ci' = ci + 1
              /\ cpc' = cpc
         ELSE /\ task_queue' = task_queue
              /\ ci' = ci
              /\ cpc' = "get"
    /\ UNCHANGED <<result_queue, batch, start_position, generator, cboard, published>>
    /\ UNCHANGED <<wrkVars, genVars, auxVars>>

\* self.board, self.revealed_tiles = self.result_queue.get(); the cases
\* "offset" and "space" end here, the default case goes on to test the board
ReadResult ==
    /\ cpc = "get"
    /\ result_queue # <<>>
    /\ cboard' = Head(result_queue)
    /\ result_queue' = Tail(result_queue)
    /\ published' = Append(published, Head(result_queue))
    /\ cpc' = IF generator \in {"Offset", "Space"} THEN "idle" ELSE "test"
    /\ UNCHANGED <<task_queue, ci, batch, start_position, generator>>
    /\ UNCHANGED <<wrkVars, genVars, auxVars>>

\* the values self.board[start_position[0]][start_position[1]] != 0 can take:
\* a board never assembled holds -2 everywhere; a board assembled for this
\* start position holds 0 there; a board assembled for another start position
\* holds whatever its mines put there
StartCellNonZero(main_board, start) ==
    IF ~main_board.assembled THEN {TRUE}
    ELSE IF main_board.start = start THEN {FALSE}
    ELSE BOOLEAN

\* while self.board[start_position[0]][start_position[1]] != 0: dispatch again
TestBoard ==
    /\ cpc = "test"
    /\ \E nonzero \in StartCellNonZero(cboard, start_position) :
         IF nonzero
           THEN /\ batch < MaxBatch
                /\ batch' = batch + 1
                /\ cpc' = "clear_task"
           ELSE /\ batch' = batch
                /\ cpc' = "idle"
    /\ UNCHANGED <<task_queue, result_queue, ci, start_position, generator, cboard, published>>
    /\ UNCHANGED <<wrkVars, genVars, auxVars>>

start_game ==
    \/ StartGame
    \/ ClearTaskQueue
    \/ ClearResultQueue
    \/ Dispatch
    \/ ReadResult
    \/ TestBoard

(***************************************************************************)
(* Part II: tiles, boards and directions                                   *)
(***************************************************************************)
Tiles == {<<r, c>> : r \in 0..(n_rows - 1), c \in 0..(n_cols - 1)}

Add(pos, d) == <<pos[1] + d[1], pos[2] + d[2]>>

Range(seq) == {seq[i] : i \in DOMAIN seq}

\* the tiles of the board in the order of the comprehension
\* [(row, col) for row in range(n_rows) for col in range(n_cols)]
AllPositions ==
    [k \in 1..(n_rows * n_cols) |-> <<(k - 1) \div n_cols, (k - 1) % n_cols>>]

\* [(x, y) for x in [-1, 0, 1] for y in [-1, 0, 1]]
Grid3 ==
    <<<<-1, -1>>, <<-1, 0>>, <<-1, 1>>, <<0, -1>>, <<0, 0>>,
      <<0, 1>>, <<1, -1>>, <<1, 0>>, <<1, 1>>>>

\* list.remove(x): drops the first occurrence of x
RECURSIVE ListRemove(_, _)
ListRemove(seq, x) ==
    IF seq = <<>> THEN <<>>
    ELSE IF Head(seq) = x THEN Tail(seq)
    ELSE <<Head(seq)>> \o ListRemove(Tail(seq), x)

\* self._directions of a generator built by BoardGenerator.__init__: the 3x3
\* grid, to which Seed.__init__ appends (0, 0) (the list is shared), and from
\* which the generator then removes one (0, 0)
StandardDirections == ListRemove(Append(Grid3, <<0, 0>>), <<0, 0>>)

\* self._directions of an OffsetBoardGenerator: the caller's list, to which the
\* second Seed appends (0, 0); the solver is handed the same list
OffsetDirections(D) == Append(D, <<0, 0>>)

\* the offset lists D an Offset generator is constructed with
OffsetChoices ==
    { <<<<1, 0>>, <<-1, 0>>, <<0, 1>>, <<0, -1>>, <<2, 0>>>>,
      <<<<1, 0>>, <<-1, 0>>, <<0, 1>>, <<0, -1>>, <<1, 1>>>> }

Variants == {"Standard", "Chain", "Space", "Offset", "Puzzle"}
SpaceVariants == {"Space", "Offset", "Puzzle"}

directions(p) ==
    IF p.variant = "Offset" THEN OffsetDirections(p.D) ELSE StandardDirections

\* the fault C19 is tested against: the densities must stay below the caps
minecount_below(minecount, rows, cols, space_count, variant) ==
    /\ minecount # 0
    /\ rows # 0 /\ cols # 0
    /\ IF space_count = 0 \/ variant = "Standard"
         THEN 5 * minecount < rows * cols
         ELSE 100 * (minecount + space_count) < 19 * rows * cols

\* Validation.minecount: at least one mine, density at most 20%, or at most 19%
\* for mines and spaces together when there are spaces and the generator
\* takes them.  The code compares the floats minecount / area <= 0.2 and
\* minecount / area + spaces / area <= 0.19, which for every board of 5..99
\* by 5..99 decide as these integer comparisons do.
minecount_ok(minecount, rows, cols, space_count, variant) ==
    /\ minecount # 0
    /\ rows # 0 /\ cols # 0
    /\ IF space_count = 0 \/ variant = "Standard"
         THEN 5 * minecount <= rows * cols
         ELSE 100 * (minecount + space_count) <= 19 * rows * cols

ValidMinecount(variant, minecount, space_count) ==
    minecount_ok(minecount, n_rows, n_cols, space_count, variant)

\* the tiles the user starts a game on: a corner first, then tiles further in
StartTiles == {<<k % n_rows, k % n_cols>> : k \in 0..(GenStarts - 1)}

\* the constructor arguments the model runs a generator with; the Puzzle
\* generator passes its own start position, (n_rows + 5, n_cols + 5)
ParamSpace ==
    { p \in [variant : Variants,
             start_pos : StartTiles \cup {<<n_rows + 5, n_cols + 5>>},
             minecount : 1..MaxChainMines,
             space_count : 0..MaxSpaces,
             D : OffsetChoices \cup {<<>>},
             difficulty : 0..MaxDifficulty] :
        /\ (p.variant = "Puzzle") = (p.start_pos \notin Tiles)
        /\ (p.variant = "Puzzle") = (p.difficulty # 0)
        /\ (p.variant = "Offset") = (p.D # <<>>)
        /\ p.variant \notin SpaceVariants => p.space_count = 0
        /\ p.variant # "Chain" => p.minecount <= MaxMines
        /\ ValidMinecount(p.variant, p.minecount, p.space_count) }

\* the candidate list of a generator's first board holds every tile outside
\* the closed neighbourhood of the start position and has no includes
Admissible(p) == Tiles \ {Add(p.start_pos, d) : d \in Range(directions(p))}

Infeasible(p) == Cardinality(Admissible(p)) < p.minecount

\* constructor arguments that no validation has seen: a start position
\* inside the board and more mines than there are admissible positions
UncheckedParamSpace ==
    { p \in [variant : Variants \ {"Puzzle"},
             start_pos : {t \in StartTiles : t[1] > 0 /\ t[2] > 0},
             minecount : 1..MaxUncheckedMines,
             space_count : 0..MaxSpaces,
             D : OffsetChoices \cup {<<>>},
             difficulty : {0}] :
        /\ (p.variant = "Offset") = (p.D # <<>>)
        /\ p.variant \notin SpaceVariants => p.space_count = 0
        /\ Infeasible(p) }

NoParams ==
    [variant |-> "None", start_pos |-> <<0, 0>>, minecount |-> 0,
     space_count |-> 0, D |-> <<>>, difficulty |-> 0]

\* a board given by its entries, as the table itself
Tabled(f) == f @@ <<>>

\* [[v for _ in range(n_cols)] for _ in range(n_rows)]
FilledBoard(v) == [t \in Tiles |-> v]

MinesOf(b) == {t \in Tiles : b[t] = -1}
SpacesOf(b) == {t \in Tiles : b[t] = -3}

(***************************************************************************)
(* Part II: Seed.generate_mines_list                                       *)
(***************************************************************************)
\* the sequences of k distinct elements of S (all of S when it has fewer)
RECURSIVE Arrangements(_, _)
Arrangements(S, k) ==
    IF k <= 0 \/ S = {} THEN {<<>>}
    ELSE UNION {{<<x>> \o rest : rest \in Arrangements(S \ {x}, k - 1)} : x \in S}

\* random.shuffle(list), at least once: any permutation.  A reader of the
\* list reads the entries first..last only, so the permutations that agree
\* there are represented by the one that leaves all other entries in their
\* original order.
shuffle(list, first, last) ==
    LET lo == IF first < 1 THEN 1 ELSE first
        hi == IF last > Len(list) THEN Len(list) ELSE last
    IN  IF lo > hi THEN {list}
        ELSE { LET rest == SelectSeq(list, LAMBDA x : x \notin Range(read))
               IN  SubSeq(rest, 1, lo - 1) \o read \o SubSeq(rest, lo, Len(rest)) :
                 read \in Arrangements(Range(list), hi - lo + 1) }

\* the fault C8 is tested against: only the start position is kept free
StartOnly(start_pos, dirs) == {start_pos}

\* the closed neighbourhood of the start position under the seed's directions
StartExcludes(start_pos, dirs) == {Add(start_pos, d) : d \in Range(dirs)}

\* list(a_set): the elements in any order
list_of_set(S, first, last) ==
    shuffle(SelectSeq(AllPositions, LAMBDA t : t \in S), first, last)

\* the fault C34 is tested against: the includes are not left out of the rest
generate_mines_list_overlapping(includes, excludes, start_pos, dirs, first, last) ==
    LET all_excludes == excludes \cup StartExcludes(start_pos, dirs)
        extra_positions ==
            SelectSeq(AllPositions, LAMBDA t : t \notin all_excludes)
        k == Cardinality(includes)
    IN  { positions \o extra :
            positions \in list_of_set(includes, first, last),
            extra \in shuffle(extra_positions, first - k, last - k) }

\* Seed.generate_mines_list(includes, excludes), for a caller that reads the
\* entries first..last of the list
generate_mines_list(includes, excludes, start_pos, dirs, first, last) ==
    LET all_excludes == excludes \cup StartExcludes(start_pos, dirs)
        extra_positions ==
            SelectSeq(AllPositions,
                      LAMBDA t : t \notin all_excludes /\ t \notin includes)
        k == Cardinality(includes)
    IN  { positions \o extra :
            positions \in list_of_set(includes, first, last),
            extra \in shuffle(extra_positions, first - k, last - k) }

(***************************************************************************)
(* Part II: the board assemblers                                           *)
(***************************************************************************)
\* BoardGenerator._get_adjacent_tiles
get_adjacent_tiles(pos, dirs) ==
    {Add(pos, d) : d \in Range(dirs)} \cap Tiles

\* SpaceBoardGenerator._get_adjacent_tiles: skips the tiles that are spaces
\* on self._board
get_adjacent_tiles_space(pos, dirs, self_board) ==
    {t \in get_adjacent_tiles(pos, dirs) : self_board[t] # -3}

\* the fault C7 is tested against: the offsets applied forwards
get_adjacent_tiles_forward(pos, dirs, self_board) ==
    {t \in {Add(pos, d) : d \in Range(dirs)} \cap Tiles : self_board[t] # -3}

\* OffsetBoardGenerator._get_adjacent_tiles_reversed
get_adjacent_tiles_reversed(pos, dirs, self_board) ==
    {t \in {<<pos[1] - d[1], pos[2] - d[2]>> : d \in Range(dirs)} \cap Tiles :
        self_board[t] # -3}

\* the tiles whose number a new mine at pos increments, per variant
IncrementedBy(p, pos, self_board) ==
    CASE p.variant \in {"Standard", "Chain"} ->
            get_adjacent_tiles(pos, directions(p))
      [] p.variant \in {"Space", "Puzzle"} ->
            get_adjacent_tiles_space(pos, directions(p), self_board)
      [] p.variant = "Offset" ->
            get_adjacent_tiles_reversed(pos, directions(p), self_board)

\* the loop "while len(mines) < self._minecount" of _generate_board,
\* _generate_board_space and _generate_board_puzzle.  index counts from 1.
\* An index past the end of the list raises IndexError (ok = FALSE).
RECURSIVE place_mines(_, _, _, _, _, _)
place_mines(p, self_board, positions, target_board, placed, index) ==
    IF Cardinality(placed) >= p.minecount
      THEN [ok |-> TRUE, board |-> target_board, mines |-> placed, index |-> index]
    ELSE IF index > Len(positions)
      THEN [ok |-> FALSE, board |-> target_board, mines |-> placed, index |-> index]
    ELSE LET current_mine == positions[index]
         IN  IF target_board[current_mine] # -1
               THEN place_mines(p, self_board, positions,
                        [t \in Tiles |->
                            IF t = current_mine THEN -1
                            ELSE IF /\ t \in IncrementedBy(p, current_mine, self_board)
                                    /\ target_board[t] # -1
                                   THEN target_board[t] + 1
                            ELSE target_board[t]],
                        placed \cup {current_mine}, index + 1)
               ELSE place_mines(p, self_board, positions, target_board, placed, index + 1)

\* the fault C10 is tested against: the loop runs while
\* len(spaces) <= self._space_count and places one space too many
RECURSIVE place_spaces_one_more(_, _, _, _, _)
place_spaces_one_more(p, space_positions, target_board, placed, index) ==
    IF Cardinality(placed) > p.space_count
      THEN [ok |-> TRUE, board |-> target_board, spaces |-> placed]
    ELSE IF index > Len(space_positions)
      THEN [ok |-> FALSE, board |-> target_board, spaces |-> placed]
    ELSE LET current_space == space_positions[index]
         IN  IF target_board[current_space] >= 0
               THEN place_spaces_one_more(p, space_positions,
                        [target_board EXCEPT ![current_space] = -3],
                        placed \cup {current_space}, index + 1)
               ELSE place_spaces_one_more(p, space_positions, target_board,
                                          placed, index + 1)

\* the loop "while len(spaces) < self._space_count"
RECURSIVE place_spaces(_, _, _, _, _)
place_spaces(p, space_positions, target_board, placed, index) ==
    IF Cardinality(placed) >= p.space_count
      THEN [ok |-> TRUE, board |-> target_board, spaces |-> placed]
    ELSE IF index > Len(space_positions)
      THEN [ok |-> FALSE, board |-> target_board, spaces |-> placed]
    ELSE LET current_space == space_positions[index]
         IN  IF target_board[current_space] >= 0
               THEN place_spaces(p, space_positions,
                        [target_board EXCEPT ![current_space] = -3],
                        placed \cup {current_space}, index + 1)
               ELSE place_spaces(p, space_positions, target_board, placed, index + 1)

\* what an assembler hands back: a board, or the exception / endless loop it
\* ends in
Assembled(target_board, placed_spaces) ==
    [status |-> "ok", board |-> target_board, spaces |-> placed_spaces]

Failed(how) == [status |-> how, board |-> FilledBoard(-2), spaces |-> {}]

\* BoardGenerator._generate_board
generate_board(p, self_board, positions) ==
    LET m == place_mines(p, self_board, positions, FilledBoard(0), {}, 1)
    IN  IF m.ok THEN {Assembled(m.board, {})} ELSE {Failed("IndexError")}

\* the index at which the space loop starts reading: _generate_board_space
\* goes on from where the mine loop stopped, _generate_board_puzzle sets
\* index = 0 again
SpaceStartIndex(p, mine_index) ==
    IF p.variant = "Puzzle" THEN 1 ELSE mine_index

\* the last index the mine loop reads: the entries of the list are distinct,
\* so it reads minecount of them; ChainBoardGenerator makes a set of the list
MineReadLast(p) == IF p.variant = "Chain" THEN 0 ELSE p.minecount

\* the last index the space loop can read: it reads space_count entries, and
\* as many more as it skips because they are mines, which only the spaces of
\* the previous board can be
SpaceReadLast(p, first) ==
    first + p.space_count - 1
    + (IF p.space_count > p.minecount THEN p.space_count - p.minecount ELSE 0)

\* SpaceBoardGenerator._generate_board_space, the override of
\* OffsetBoardGenerator and PuzzleBoardGenerator._generate_board_puzzle
generate_board_space(p, self_board, positions, space_positions) ==
    LET m == place_mines(p, self_board, positions, FilledBoard(0), {}, 1)
        first == SpaceStartIndex(p, m.index)
    IN  IF ~m.ok THEN {Failed("IndexError")}
        ELSE { LET s == place_spaces(p, list, m.board, {}, first)
               IN  IF s.ok THEN Assembled(s.board, s.spaces)
                   ELSE Failed("IndexError") :
                 list \in generate_mines_list(space_positions, m.mines,
                              p.start_pos, directions(p),
                              first, SpaceReadLast(p, first)) }

\* LogicalSolver.get_orthogonal_adj
orthogonal_directions == <<<<1, 0>>, <<-1, 0>>, <<0, 1>>, <<0, -1>>>>

get_orthogonal_adj(pos) ==
    {Add(pos, d) : d \in Range(orthogonal_directions)} \cap Tiles

NullTile == <<-1, -1>>

\* Seed.give_random_tile(select_from = S): a random element, or the null tile
\* when S is empty
give_random_tile_from(S) == IF S = {} THEN {NullTile} ELSE S

\* the inner loop of ChainBoardGenerator._generate_board,
\* "while mine_two == (-1, -1) or mine_one == (-1, -1)": the pairs it can end
\* with, and "hang" when it can go round for ever
RECURSIVE ChainPick(_, _, _)
ChainPick(select_from, exclusions, loc_safes) ==
    IF select_from \ loc_safes = {}
      THEN {[hang |-> TRUE, mine_one |-> NullTile, mine_two |-> NullTile,
             loc_safes |-> loc_safes]}
      ELSE UNION {
             LET mine_one_orth == get_orthogonal_adj(mine_one)
             IN  UNION {
                   IF mine_two = NullTile
                     THEN ChainPick(select_from, exclusions,
                                    loc_safes \cup {mine_one, mine_two})
                     ELSE {[hang |-> FALSE, mine_one |-> mine_one,
                            mine_two |-> mine_two, loc_safes |-> loc_safes]} :
                   mine_two \in give_random_tile_from(
                                   (mine_one_orth \ exclusions) \ loc_safes) } :
             mine_one \in give_random_tile_from(select_from \ loc_safes) }

\* the numbers after the pair is placed: both mines are set to -1 first, then
\* the tiles around mine_one and around mine_two are incremented in turn
ChainIncrement(p, target_board, mine_one, mine_two) ==
    [t \in Tiles |->
        IF t \in {mine_one, mine_two} THEN -1
        ELSE IF target_board[t] >= 0
          THEN target_board[t]
               + (IF t \in get_adjacent_tiles(mine_one, directions(p)) THEN 1 ELSE 0)
               + (IF t \in get_adjacent_tiles(mine_two, directions(p)) THEN 1 ELSE 0)
        ELSE target_board[t]]

\* the fault C11 is tested against: the orthogonal neighbours of a placed pair
\* are not added to safes
RECURSIVE ChainPlaceNoSafes(_, _, _, _, _)
ChainPlaceNoSafes(p, mine_pos, target_board, placed, safes) ==
    IF Cardinality(placed) >= p.minecount
      THEN {Assembled(target_board, {})}
      ELSE LET exclusions == placed \cup safes
               select_from == mine_pos \ exclusions
           IN  UNION {
                 IF pick.hang THEN {Failed("hang")}
                 ELSE ChainPlaceNoSafes(p, mine_pos,
                        ChainIncrement(p, target_board, pick.mine_one, pick.mine_two),
                        placed \cup {pick.mine_one, pick.mine_two},
                        safes \cup pick.loc_safes) :
                 pick \in ChainPick(select_from, exclusions, {NullTile}) }

\* the outer loop "while len(mines) < self._minecount" of
\* ChainBoardGenerator._generate_board
RECURSIVE ChainPlace(_, _, _, _, _)
ChainPlace(p, mine_pos, target_board, placed, safes) ==
    IF Cardinality(placed) >= p.minecount
      THEN {Assembled(target_board, {})}
      ELSE LET exclusions == placed \cup safes
               select_from == mine_pos \ exclusions
           IN  UNION {
                 IF pick.hang THEN {Failed("hang")}
                 ELSE ChainPlace(p, mine_pos,
                        ChainIncrement(p, target_board, pick.mine_one, pick.mine_two),
                        placed \cup {pick.mine_one, pick.mine_two},
                        safes \cup pick.loc_safes
                              \cup get_orthogonal_adj(pick.mine_one)
                              \cup get_orthogonal_adj(pick.mine_two)) :
                 pick \in ChainPick(select_from, exclusions, {NullTile}) }

\* ChainBoardGenerator._generate_board
generate_board_chain(p, positions) ==
    ChainPlace(p, Range(positions), FilledBoard(0), {},
               StartExcludes(p.start_pos, directions(p)))

\* self._generate_board(), self._generate_board_space(spaces) or
\* self._generate_board_puzzle(set()), whichever the generator class runs
Assemble(p, self_board, positions, old_spaces) ==
    CASE p.variant = "Standard" -> generate_board(p, self_board, positions)
      [] p.variant = "Chain" -> generate_board_chain(p, positions)
      [] p.variant \in {"Space", "Offset"} ->
            generate_board_space(p, self_board, positions, old_spaces)
      [] p.variant = "Puzzle" ->
            generate_board_space(p, self_board, positions, {})

(***************************************************************************)
(* Part II: the matrices of MatrixSolver.  Python computes them in binary   *)
(* floating point; the model computes the same operations on exact          *)
(* fractions <<numerator, denominator>> in lowest terms.                    *)
(***************************************************************************)
Abs(x) == IF x < 0 THEN -x ELSE x

RECURSIVE Gcd(_, _)
Gcd(a, b) == IF b = 0 THEN a ELSE Gcd(b, a % b)

Frac(n, d) ==
    LET g == Gcd(Abs(n), Abs(d))
        s == IF d < 0 THEN -1 ELSE 1
    IN  <<(s * n) \div g, (s * d) \div g>>

Zero == <<0, 1>>
FromInt(n) == <<n, 1>>
FAdd(a, b) == Frac(a[1] * b[2] + b[1] * a[2], a[2] * b[2])
FSub(a, b) == Frac(a[1] * b[2] - b[1] * a[2], a[2] * b[2])
FMul(a, b) == Frac(a[1] * b[1], a[2] * b[2])
FDiv(a, b) == Frac(a[1] * b[2], a[2] * b[1])
AbsLess(a, b) == Abs(a[1]) * b[2] < Abs(b[1]) * a[2]

\* a list given by its entries, as the list itself
Listed(f) == f \o <<>>

\* the first pass of MatrixSolver._row_echelon, "for target_column in
\* range(cols - 1)"; rows and columns count from 1
RECURSIVE ForwardEliminate(_, _, _)
ForwardEliminate(mat, target_column, target_row_index) ==
    LET rows == Len(mat)
        cols == Len(mat[1])
    IN  IF target_column > cols - 1 THEN mat
        ELSE
          LET below == target_row_index..rows
              \* max(local_mat[target_row_index:], key=abs(...)): the first
              \* of the rows with the largest absolute value
              max_row == CHOOSE i \in below :
                  /\ \A j \in below : ~AbsLess(mat[i][target_column], mat[j][target_column])
                  /\ \A j \in below :
                        j < i => AbsLess(mat[j][target_column], mat[i][target_column])
              \* local_mat.index(max_row): the first row of the whole matrix
              \* that equals it
              max_index == CHOOSE i \in 1..rows :
                  /\ mat[i] = mat[max_row]
                  /\ \A j \in 1..(i - 1) : mat[j] # mat[max_row]
              local_mat == [mat EXCEPT ![max_index] = mat[target_row_index],
                                       ![target_row_index] = mat[max_index]]
              pivot == local_mat[target_row_index]
              eliminated ==
                  Listed([row \in 1..rows |->
                      IF row <= target_row_index THEN local_mat[row]
                      ELSE LET division_factor ==
                                   FDiv(local_mat[row][target_column],
                                        pivot[target_column])
                           IN  IF division_factor = Zero THEN local_mat[row]
                               ELSE Listed([col \in 1..cols |->
                                       IF col < target_column THEN local_mat[row][col]
                                       ELSE FSub(local_mat[row][col],
                                                 FMul(pivot[col], division_factor))])])
          IN  IF pivot[target_column] = Zero
                THEN ForwardEliminate(local_mat, target_column + 1, target_row_index)
              ELSE IF target_row_index + 1 >= rows THEN eliminated
              ELSE ForwardEliminate(eliminated, target_column + 1, target_row_index + 1)

\* the second pass, "for target_column in range(cols - 2, -1, -1)"
RECURSIVE BackwardEliminate(_, _, _)
BackwardEliminate(mat, target_column, target_row_index) ==
    LET rows == Len(mat)
        cols == Len(mat[1])
        pivot == mat[target_row_index]
        eliminated ==
            Listed([row \in 1..rows |->
                IF row >= target_row_index THEN mat[row]
                ELSE LET division_factor ==
                             FDiv(mat[row][target_column], pivot[target_column])
                     IN  IF division_factor = Zero THEN mat[row]
                         ELSE Listed([col \in 1..cols |->
                                 FSub(mat[row][col], FMul(pivot[col], division_factor))])])
    IN  IF target_column < 1 THEN mat
        ELSE IF pivot[target_column] = Zero
          THEN BackwardEliminate(mat, target_column - 1, target_row_index)
        ELSE IF target_row_index - 1 <= 1 THEN eliminated
        ELSE BackwardEliminate(eliminated, target_column - 1, target_row_index - 1)

\* MatrixSolver._row_echelon
row_echelon(mat) ==
    BackwardEliminate(ForwardEliminate(mat, 1, 1), Len(mat[1]) - 1, Len(mat))

RECURSIVE SumCoefs(_, _)
SumCoefs(row, indexes) ==
    IF indexes = {} THEN Zero
    ELSE LET i == CHOOSE i \in indexes : TRUE
         IN  FAdd(row[i], SumCoefs(row, indexes \ {i}))

\* the fault C27 is tested against: a tile is added to the safes whether or
\* not it is among the mines
AnalyseRowUnfiltered(row, var_list, found) ==
    LET n == Len(var_list)
        terms == {i \in 1..n : row[i] # Zero}
        upper_tiles == {i \in terms :
            \/ row[i][1] > 0 /\ var_list[i] \notin found.safes
            \/ var_list[i] \in found.mines}
        lower_tiles == {i \in terms :
            \/ row[i][1] < 0 /\ var_list[i] \notin found.safes
            \/ var_list[i] \in found.mines}
    IN  IF \A i \in 1..(n + 1) : row[i] = Zero THEN found
        ELSE IF row[n + 1] = SumCoefs(row, lower_tiles)
          THEN [mines |-> found.mines \cup {var_list[i] : i \in lower_tiles},
                safes |-> found.safes \cup {var_list[i] : i \in upper_tiles}]
        ELSE IF row[n + 1] = SumCoefs(row, upper_tiles)
          THEN [mines |-> found.mines \cup {var_list[i] : i \in upper_tiles},
                safes |-> found.safes \cup {var_list[i] : i \in lower_tiles}]
        ELSE found

\* one round of the loop "for row in reversed(mat)" of
\* MatrixSolver._analyse_matrix; found is the pair of sets built so far
AnalyseRow(row, var_list, found) ==
    LET n == Len(var_list)
        terms == {i \in 1..n : row[i] # Zero}
        result == row[n + 1]
        upper_tiles == {i \in terms :
            \/ row[i][1] > 0 /\ var_list[i] \notin found.safes
            \/ var_list[i] \in found.mines}
        lower_tiles == {i \in terms :
            \/ row[i][1] < 0 /\ var_list[i] \notin found.safes
            \/ var_list[i] \in found.mines}
        upper_bound == SumCoefs(row, upper_tiles)
        lower_bound == SumCoefs(row, lower_tiles)
        lower_mines == found.mines \cup {var_list[i] : i \in lower_tiles}
        upper_mines == found.mines \cup {var_list[i] : i \in upper_tiles}
    IN  IF \A i \in 1..(n + 1) : row[i] = Zero THEN found
        ELSE IF result = lower_bound
          THEN [mines |-> lower_mines,
                safes |-> found.safes
                            \cup ({var_list[i] : i \in upper_tiles} \ lower_mines)]
        ELSE IF result = upper_bound
          THEN [mines |-> upper_mines,
                safes |-> found.safes
                            \cup ({var_list[i] : i \in lower_tiles} \ upper_mines)]
        ELSE found

RECURSIVE AnalyseRows(_, _, _, _)
AnalyseRows(mat, var_list, index, found) ==
    IF index < 1 THEN found
    ELSE AnalyseRows(mat, var_list, index - 1,
                     AnalyseRow(mat[index], var_list, found))

\* the fault C28 is tested against: the rows are gone through top-down
analyse_matrix_top_down(mat, var_list) ==
    AnalyseRows([i \in 1..Len(mat) |-> mat[Len(mat) + 1 - i]], var_list, Len(mat),
                [mines |-> {}, safes |-> {}])

\* MatrixSolver._analyse_matrix
analyse_matrix(mat, var_list) ==
    AnalyseRows(mat, var_list, Len(mat), [mines |-> {}, safes |-> {}])

(***************************************************************************)
(* Part II: the solvers.  A Python set is iterated in an order that depends *)
(* on hashes and on the history of the set; the model iterates every set of *)
(* one call of solve in the order `ord`, one of IterOrders.                 *)
(***************************************************************************)
Reverse(seq) == [i \in 1..Len(seq) |-> seq[Len(seq) + 1 - i]]

ColumnMajor ==
    [k \in 1..(n_rows * n_cols) |-> <<(k - 1) % n_rows, (k - 1) \div n_rows>>]

IterOrders ==
    {AllPositions, Reverse(AllPositions), ColumnMajor, Reverse(ColumnMajor)}

\* the elements of S in iteration order
InOrder(S, ord) == SelectSeq(ord, LAMBDA t : t \in S)

\* self._directions of the solver: MatrixSolver.__init__ builds the 3x3 grid
\* without (0, 0); OffsetBoardSolver replaces it by the generator's list
MatrixSolverDirections == ListRemove(Grid3, <<0, 0>>)

SolverDirections(p) ==
    IF p.variant = "Offset" THEN OffsetDirections(p.D)
    ELSE MatrixSolverDirections

\* LogicalSolver._get_adjacent_tiles
solver_adjacent_tiles(p, pos) ==
    {Add(pos, d) : d \in Range(SolverDirections(p))} \cap Tiles

\* MatrixSolver._covered_adjacent_tiles and its override in
\* SpaceBoardMatrixSolver (the class of the Space, Offset and Puzzle solvers)
covered_adjacent_tiles(p, pos, b, with_mines) ==
    {t \in solver_adjacent_tiles(p, pos) :
        IF ~with_mines THEN b[t] = -2
        ELSE IF p.variant \in {"Standard", "Chain"} THEN b[t] < 0
        ELSE b[t] \in {-1, -2}}

\* MatrixSolver._get_adjacent_mines
get_adjacent_mines(p, pos, b) ==
    {t \in solver_adjacent_tiles(p, pos) : b[t] = -1}

\* MatrixSolver._check_neighbour_covered
check_neighbour_covered(p, pos, b) ==
    \E t \in solver_adjacent_tiles(p, pos) : b[t] = -2

\* the fault C21 is tested against: the flagged mines around the tile are not
\* taken off its number
number_shown(p, pos, b) == b[pos]

\* MatrixSolver.get_effective_num
get_effective_num(p, pos, b) == b[pos] - Cardinality(get_adjacent_mines(p, pos, b))

\* the fault C32 is tested against: a border tile is kept when it has lost its
\* covered neighbours
get_border_tiles_stale(p, b, new_safe_set, old_borders) ==
    old_borders \cup {pos \in new_safe_set : check_neighbour_covered(p, pos, b)}

\* MatrixSolver.get_border_tiles
get_border_tiles(p, b, new_safe_set, old_borders) ==
    LET o_remove == {pos \in old_borders : ~check_neighbour_covered(p, pos, b)}
        o_add == {pos \in new_safe_set : check_neighbour_covered(p, pos, b)}
    IN  (old_borders \cup o_add) \ o_remove

\* the fault C29 is tested against: the flagged cells count as covered
uncovered_or_flagged(b) == {t \in Tiles : b[t] \in {-1, -2}}

\* MatrixSolver._get_covered_tiles
get_covered_tiles(b) == {t \in Tiles : b[t] = -2}

\* MatrixSolver._get_current_minecount
get_current_minecount(p, b) == p.minecount - Cardinality({t \in Tiles : b[t] = -1})

\* LogicalSolver._check_resolved_tile: the loop over the border tiles, which
\* writes what it finds to temp_board as it goes
RECURSIVE check_resolved_tile(_, _, _, _)
check_resolved_tile(p, border_list, temp_board, found) ==
    IF border_list = <<>> THEN found
    ELSE
      LET pos == Head(border_list)
          covered == covered_adjacent_tiles(p, pos, temp_board, TRUE)
          flagged == {t \in covered : temp_board[t] = -1}
          new_safes == {t \in covered : temp_board[t] = -2}
      IN  IF Cardinality(covered) = temp_board[pos]
            THEN check_resolved_tile(p, Tail(border_list),
                     Tabled([t \in Tiles |-> IF t \in covered THEN -1 ELSE temp_board[t]]),
                     [found EXCEPT !.mines = @ \cup covered])
          ELSE IF Cardinality(flagged) = temp_board[pos]
            THEN check_resolved_tile(p, Tail(border_list),
                     Tabled([t \in Tiles |-> IF t \in new_safes THEN 0 ELSE temp_board[t]]),
                     [found EXCEPT !.safes = @ \cup new_safes])
          ELSE check_resolved_tile(p, Tail(border_list), temp_board, found)

\* the fault C30 is tested against: the diagonal neighbours are taken too
pattern_any_adj(p, pos, b) == solver_adjacent_tiles(p, pos)

\* LogicalSolver.get_orthogonal_adj, or
\* SpaceBoardLogicalSolver._get_space_orthogonal_adj where the class has it
pattern_orthogonal_adj(p, pos, b) ==
    IF p.variant \in {"Standard", "Chain"} THEN get_orthogonal_adj(pos)
    ELSE {t \in get_orthogonal_adj(pos) : b[t] # -3}

\* LogicalSolver._check_one_two_pattern and its override in
\* SpaceBoardLogicalSolver
check_one_two_pattern(p, borders, b) ==
    LET Covered(pos) == covered_adjacent_tiles(p, pos, b, FALSE)
        Shared(pos, target) == Covered(pos) \cap Covered(target)
        twos == {pos \in borders : get_effective_num(p, pos, b) = 2}
        ones == {pos \in borders : get_effective_num(p, pos, b) = 1}
        matches ==
            {pair \in twos \X ones :
                /\ pair[2] \in pattern_orthogonal_adj(p, pair[1], b)
                /\ Cardinality(Covered(pair[1]))
                     - Cardinality(Shared(pair[1], pair[2])) = 1}
    IN  [mines |-> UNION {Covered(pair[1]) \ Shared(pair[1], pair[2]) : pair \in matches},
         safes |-> UNION {Covered(pair[2]) \ Shared(pair[1], pair[2]) : pair \in matches}]

NoProgress == [mines |-> {}, safes |-> {}, borders |-> {}]

\* LogicalSolver._find_logical_progress, and the override of OffsetBoardSolver,
\* which leaves the one-two pattern out
find_logical_progress(p, b, new_safe_set, old_borders, ord) ==
    LET borders == get_border_tiles(p, b, new_safe_set, old_borders)
        pattern == IF p.variant = "Offset" THEN [mines |-> {}, safes |-> {}]
                   ELSE check_one_two_pattern(p, borders, b)
        resolved == check_resolved_tile(p, InOrder(borders, ord), b,
                                        [mines |-> {}, safes |-> {}])
    IN  IF borders = {} THEN NoProgress
        ELSE [mines |-> resolved.mines \cup pattern.mines,
              safes |-> resolved.safes \cup pattern.safes,
              borders |-> borders]

\* ChainMatrixSolver._get_covered_orthogonal_adj
get_covered_orthogonal_adj(pos, b) ==
    {t \in get_orthogonal_adj(pos) : b[t] = -2}

\* the keys of the dictionary of MatrixSolver._build_var_dict, in insertion
\* order; ChainMatrixSolver._build_var_dict_chain adds the unpaired mines
var_dict_keys(borders, free_mines, ord) ==
    InOrder(borders, ord) \o InOrder(free_mines \ borders, ord)

\* the value the dictionary holds for a key: the entry of an unpaired mine
\* is written last
var_dict_value(p, pos, free_mines, b) ==
    IF pos \in free_mines THEN get_covered_orthogonal_adj(pos, b)
    ELSE covered_adjacent_tiles(p, pos, b, FALSE)

\* MatrixSolver._build_var_list
RECURSIVE build_var_list(_, _, _, _, _, _)
build_var_list(p, keys, free_mines, b, ord, output_list) ==
    IF keys = <<>> THEN output_list
    ELSE build_var_list(p, Tail(keys), free_mines, b, ord,
             output_list \o
             SelectSeq(InOrder(var_dict_value(p, Head(keys), free_mines, b), ord),
                       LAMBDA item : item \notin Range(output_list)))

\* MatrixSolver._build_mat and ChainMatrixSolver._build_mat_chain
build_mat(p, keys, var_list, free_mines, b) ==
    LET n == Len(var_list)
        tile_rows ==
            Listed([k \in 1..Len(keys) |->
                Listed([i \in 1..(n + 1) |->
                    IF i <= n
                      THEN IF var_list[i] \in var_dict_value(p, keys[k], free_mines, b)
                             THEN FromInt(1) ELSE FromInt(0)
                    ELSE IF p.variant = "Chain" /\ b[keys[k]] < 0 THEN FromInt(1)
                    ELSE FromInt(get_effective_num(p, keys[k], b))])])
        minecount_row ==
            Listed([i \in 1..(n + 1) |->
                IF i <= n THEN FromInt(1) ELSE FromInt(get_current_minecount(p, b))])
    IN  IF get_covered_tiles(b) = Range(var_list) /\ n # 0
          THEN Append(tile_rows, minecount_row)
          ELSE tile_rows

\* MatrixSolver._find_progress and ChainMatrixSolver._find_progress_chain
\* (free_mines is empty for every solver but the Chain solver)
find_progress(p, b, new_safe_set, old_borders, free_mines, ord) ==
    LET borders == get_border_tiles(p, b, new_safe_set, old_borders)
        keys == var_dict_keys(borders, free_mines, ord)
        var_list == build_var_list(p, keys, free_mines, b, ord, <<>>)
        mat == build_mat(p, keys, var_list, free_mines, b)
        found == analyse_matrix(row_echelon(mat), var_list)
    IN  IF borders = {} THEN NoProgress
        ELSE [mines |-> found.mines, safes |-> found.safes, borders |-> borders]

\* ChainLogicalSolver._resolve_chain: the loop "for mine_row, mine_col in
\* mines".  target_mine is left at the neighbour the inner loop visited last.
RECURSIVE resolve_chain(_, _, _, _)
resolve_chain(mine_list, all_mines, ord, found) ==
    IF mine_list = <<>> THEN found
    ELSE
      LET mine == Head(mine_list)
          orthogonal_positions == InOrder(get_orthogonal_adj(mine), ord)
          pair == \E t \in Range(orthogonal_positions) : t \in all_mines
          new_safes == Range(orthogonal_positions) \ all_mines
          target_mine == orthogonal_positions[Len(orthogonal_positions)]
      IN  IF pair
            THEN resolve_chain(Tail(mine_list), all_mines, ord,
                     [safes |-> (found.safes \cup new_safes
                                   \cup get_orthogonal_adj(target_mine)) \ {mine},
                      mines |-> found.mines \cup {mine}
                                   \cup (Range(orthogonal_positions) \cap all_mines)])
            ELSE resolve_chain(Tail(mine_list), all_mines, ord, found)

\* the board the solver starts from: everything covered, the spaces marked,
\* the start position and the tiles around it revealed
start_adjacency(p, spaces_set) ==
    LET marked == [t \in Tiles |-> IF t \in spaces_set THEN -3 ELSE -2]
    IN  {p.start_pos} \cup
        (IF p.variant \in {"Standard", "Chain"}
           THEN solver_adjacent_tiles(p, p.start_pos)
           ELSE {t \in solver_adjacent_tiles(p, p.start_pos) : marked[t] # -3})

start_test_board(p, answer_board, spaces_set) ==
    Tabled([t \in Tiles |->
        IF t \in start_adjacency(p, spaces_set) THEN answer_board[t]
        ELSE IF t \in spaces_set THEN -3
        ELSE -2])

\* the loop "while self._check_for_covered_tile(test_board)" of
\* LogicalSolver.solve, SpaceBoardLogicalSolver.solve_spaces and
\* ChainLogicalSolver.solve
RECURSIVE solve_loop(_, _, _, _, _, _, _, _, _)

\* the second value PuzzleSolver.puzzle_solve returns with False: the covered
\* tiles next to the border tiles; solve and solve_spaces return no such value
puzzle_frontier(p, borders, test_board, ord) ==
    IF p.variant # "Puzzle" THEN {}
    ELSE Range(build_var_list(p, var_dict_keys(borders, {}, ord), {},
                              test_board, ord, <<>>))

\* the end of one round of the loop: the mines are flagged and the safe tiles
\* uncovered on test_board, or the loop ends without progress
solve_reveal(p, answer_board, test_board, found_mines, now_chain_mines, ord, progress) ==
    LET revealed == Tabled([t \in Tiles |->
                        IF t \in progress.mines THEN -1
                        ELSE IF t \in progress.safes THEN answer_board[t]
                        ELSE test_board[t]])
        now_mines == found_mines \cup progress.mines
    IN  IF progress.mines = {} /\ progress.safes = {}
          THEN [mines |-> found_mines, solvable |-> FALSE,
                frontier |-> puzzle_frontier(p, progress.borders, test_board, ord)]
          ELSE solve_loop(p, answer_board, revealed, progress.safes,
                          progress.borders, now_mines,
                          IF p.variant = "Chain" THEN now_mines \ now_chain_mines
                          ELSE {},
                          now_chain_mines, ord)

\* the middle of one round: the matrix is tried when the logical pass and the
\* chain rule found nothing
solve_round(p, answer_board, test_board, found_mines, free_mines, chain_mines, ord, logical, chain) ==
    LET logical_safes == logical.safes \cup chain.safes
    IN  solve_reveal(p, answer_board, test_board, found_mines,
                     chain_mines \cup chain.mines, ord,
                     IF logical.mines # {} \/ logical_safes # {}
                       THEN [mines |-> logical.mines, safes |-> logical_safes,
                             borders |-> logical.borders]
                       ELSE find_progress(p, test_board, logical_safes,
                                          logical.borders, free_mines, ord))

solve_loop(p, answer_board, test_board, new_safes, old_borders, found_mines, free_mines, chain_mines, ord) ==
    IF \A t \in Tiles : test_board[t] # -2
      THEN [mines |-> {}, solvable |-> TRUE, frontier |-> {}]
      ELSE solve_round(p, answer_board, test_board, found_mines, free_mines,
                       chain_mines, ord,
                       find_logical_progress(p, test_board, new_safes,
                                             old_borders, ord),
                       IF p.variant = "Chain"
                         THEN resolve_chain(InOrder(free_mines, ord), free_mines,
                                            ord, [safes |-> {}, mines |-> {}])
                         ELSE [safes |-> {}, mines |-> {}])

\* self._solver.solve(self._board) or self._solver.solve_spaces(self._board,
\* spaces), whichever the generator class calls
solve(p, answer_board, spaces_set, ord) ==
    solve_loop(p, answer_board, start_test_board(p, answer_board, spaces_set),
               start_adjacency(p, spaces_set), {p.start_pos}, {}, {}, {}, ord)

(***************************************************************************)
(* Part II: the Puzzle generator's revealed tiles                          *)
(***************************************************************************)
Min(a, b) == IF a <= b THEN a ELSE b

\* the fault C16 is tested against: a power of ten is given one digit too few
RECURSIVE StrLenShort(_)
StrLenShort(n) == IF n <= 10 THEN 1 ELSE 1 + StrLenShort(n \div 10)

\* len(str(n)) for a positive integer n
RECURSIVE StrLen(_)
StrLen(n) == IF n < 10 THEN 1 ELSE 1 + StrLen(n \div 10)

\* tiles_required of generate_no_guess_board, for a board of W columns and H
\* rows and the difficulty d
tiles_required(W, H, d) == Min(StrLen((d + 1) * (W * H)) * d, (W * H) \div 5)

\* repetitions of generate_no_guess_board
repetitions(W, H, d) ==
    IF tiles_required(W, H, d) = (W * H) \div 5 THEN 1 ELSE d

TilesRequired(p) == tiles_required(n_cols, n_rows, p.difficulty)

\* the fault C15 is tested against: the first and last column are left out
first_and_last_row == {t \in Tiles : t[1] \in {0, n_rows - 1}}

\* the tiles in the first or last row or column
always_exclude ==
    {t \in Tiles : t[1] \in {0, n_rows - 1} \/ t[2] \in {0, n_cols - 1}}

\* Seed.give_random_tile(excludes = E): the tiles it can return.  Its loop
\* "while tile in excludes" never ends when E covers the board (no tile).
give_random_tile_excluding(E) == Tiles \ E

\* the value _add_tile returns to ask for a full reset
FullReset(T) == {<<a, a>> : a \in 0..T}

\* the loop "for _ in range(repetitions)" of _add_tile: the values the call
\* can return, and hang when give_random_tile can go round for ever
RECURSIVE add_tile_loop(_, _, _, _, _, _, _)
add_tile_loop(reps, T, local_new_positions, local_revealed_tiles, exclusions, mine_set, space_set) ==
    IF reps = 0 THEN {[hang |-> FALSE, revealed |-> local_revealed_tiles]}
    ELSE LET island == local_new_positions \ local_revealed_tiles = {}
             drawn == IF island THEN give_random_tile_excluding(exclusions)
                      ELSE {NullTile}
         IN  IF drawn = {}
               THEN {[hang |-> TRUE, revealed |-> local_revealed_tiles]}
               ELSE UNION {
                 LET grown == IF island THEN local_new_positions \cup {new_tile}
                              ELSE local_new_positions
                     valid_positions == (grown \ exclusions) \ local_revealed_tiles
                     new_valid_positions ==
                         (((grown \ always_exclude) \ mine_set) \ space_set)
                             \ local_revealed_tiles
                 IN  IF new_valid_positions = {}
                       THEN {[hang |-> FALSE, revealed |-> FullReset(T)]}
                       ELSE UNION {
                         add_tile_loop(reps - 1, T, grown,
                                       local_revealed_tiles \cup {tile},
                                       exclusions \cup local_revealed_tiles \cup {tile},
                                       mine_set, space_set) :
                         tile \in give_random_tile_from(
                                     IF valid_positions # {} THEN valid_positions
                                     ELSE new_valid_positions) } :
                 new_tile \in drawn }

\* PuzzleBoardGenerator._add_tile
add_tile(p, self_board, positions, revealed, mine_set, space_set) ==
    add_tile_loop(repetitions(n_cols, n_rows, p.difficulty), TilesRequired(p),
                  positions, revealed,
                  revealed \cup mine_set \cup always_exclude \cup space_set
                      \cup UNION {get_adjacent_tiles_space(pos, directions(p), self_board) :
                                    pos \in revealed},
                  mine_set, space_set)

\* the fault C14 is tested against: the loop runs while
\* len(revealed_tiles) <= tiles_required
RECURSIVE reveal_more_one_more(_, _, _)
reveal_more_one_more(revealed, T, excluded) ==
    IF Cardinality(revealed) > T THEN {revealed}
    ELSE UNION {reveal_more_one_more(revealed \cup {tile}, T, excluded) :
                  tile \in give_random_tile_excluding(revealed \cup excluded)}

\* "while len(revealed_tiles) < tiles_required: revealed_tiles.add(...)", the
\* loop that follows a successful solve: the sets it can end with
RECURSIVE reveal_more(_, _, _)
reveal_more(revealed, T, excluded) ==
    IF Cardinality(revealed) >= T THEN {revealed}
    ELSE UNION {reveal_more(revealed \cup {tile}, T, excluded) :
                  tile \in give_random_tile_excluding(revealed \cup excluded)}

(***************************************************************************)
(* Part II: one generator object running generate_no_guess_board           *)
(***************************************************************************)
InitGen ==
    /\ params = NoParams
    /\ mine_positions = <<>>
    /\ board = FilledBoard(-2)
    /\ spaces = {}
    /\ mines = {}
    /\ count = 0
    /\ fails = 0
    /\ revealed_tiles = {}
    /\ new_positions = {}
    /\ gpc = "idle"

\* BoardGenerator.__init__ and the constructors of its subclasses.  The
\* Puzzle generator assembles its first board from the constructor's list.
ConstructFrom(arguments) ==
    /\ gpc = "idle"
    /\ \E p \in arguments :
        /\ params' = p
        /\ mine_positions' \in generate_mines_list({}, {}, p.start_pos,
                                   StandardDirections, 1,
                                   IF p.variant = "Puzzle" THEN MineReadLast(p)
                                   ELSE 0)
        /\ gpc' = IF p.variant = "Puzzle" THEN "first" ELSE "loop"
    /\ board' = FilledBoard(-2)
    /\ spaces' = {}
    /\ mines' = {}
    /\ count' = 0
    /\ fails' = 0
    /\ revealed_tiles' = {}
    /\ new_positions' = {}
    /\ UNCHANGED <<hubVars, auxVars>>

\* a generator constructed by the game, whose settings passed Validation
Construct == ConstructFrom(ParamSpace)

\* a generator constructed directly, as the scripts at the foot of the
\* generator modules do, with more mines than the candidate list can hold
ConstructUnchecked == ConstructFrom(UncheckedParamSpace)

\* the fault C33 is tested against: a reset only past tiles_required
too_many_revealed_strict(p, revealed) ==
    Cardinality(revealed) > TilesRequired(p)

\* "if len(revealed_tiles) >= tiles_required" at the head of the Puzzle loop
too_many_revealed(p, revealed) ==
    Cardinality(revealed) >= TilesRequired(p)

\* the head of the loop: a full reset when count is 3, else a partial reset
\* that keeps the mines the solver deduced.  The Puzzle generator resets in
\* full, and empties revealed_tiles, once revealed_tiles holds tiles_required
\* tiles or more; before that it goes on revealing tiles of the same board.
ResetBoard ==
    /\ gpc = "loop"
    /\ IF /\ params.variant = "Puzzle"
          /\ ~too_many_revealed(params, revealed_tiles)
         THEN /\ gpc' = "reveal"
              /\ UNCHANGED <<mine_positions, count, fails, board, revealed_tiles>>
         ELSE /\ LET full == count = 3 \/ params.variant = "Puzzle"
                     old_mines == IF full THEN {} ELSE mines
                 IN  /\ mine_positions' \in
                            generate_mines_list(old_mines, {}, params.start_pos,
                                directions(params), 1, MineReadLast(params))
                     /\ count' = IF params.variant = "Puzzle" THEN count
                                 ELSE IF full THEN 0 ELSE count + 1
                     /\ fails' = IF full THEN 0 ELSE fails
              /\ board' = FilledBoard(-2)
              /\ revealed_tiles' = IF params.variant = "Puzzle" THEN {}
                                   ELSE revealed_tiles
              /\ gpc' = "generate"
    /\ UNCHANGED <<params, spaces, mines, new_positions, hubVars, auxVars>>

\* self._board = self._generate_board() and its variants; an IndexError
\* ends the call, an endless inner loop of the Chain assembler never returns
GenerateBoard ==
    /\ gpc \in {"first", "generate"}
    /\ \E result \in Assemble(params, board, mine_positions, spaces) :
        IF result.status = "ok"
          THEN /\ board' = result.board
               /\ spaces' = result.spaces
               /\ gpc' = IF params.variant # "Puzzle" THEN "solve"
                         ELSE IF gpc = "first" THEN "loop" ELSE "anchor"
          ELSE /\ gpc' = result.status
               /\ UNCHANGED <<board, spaces>>
    /\ UNCHANGED <<params, mine_positions, mines, count, revealed_tiles,
                   new_positions, fails,
                   hubVars, auxVars>>

\* mines, solvable = self._solver.solve(self._board)
SolveBoard ==
    /\ gpc = "solve"
    /\ params.variant # "Puzzle"
    /\ \E ord \in IterOrders :
        \E result \in {solve(params, board, spaces, ord)} :
            /\ mines' = result.mines
            /\ gpc' = IF result.solvable THEN "done" ELSE "loop"
            /\ fails' = IF result.solvable THEN fails ELSE fails + 1
    /\ UNCHANGED <<params, mine_positions, board, spaces, count, revealed_tiles,
                   new_positions, hubVars, auxVars>>

\* new_positions = {self._seed_gen.give_random_tile(excludes = ...)}, after
\* the board was assembled anew
PickAnchor ==
    /\ gpc = "anchor"
    /\ LET choice == give_random_tile_excluding(
                         always_exclude \cup MinesOf(board) \cup spaces)
       IN  IF choice = {}
             THEN /\ gpc' = "hang"
                  /\ UNCHANGED new_positions
             ELSE /\ \E tile \in choice : new_positions' = {tile}
                  /\ gpc' = "reveal"
    /\ UNCHANGED <<params, mine_positions, board, spaces, mines, count,
                   revealed_tiles, fails,
                   hubVars, auxVars>>

\* one pass of "while len(revealed_tiles) < tiles_required:
\* revealed_tiles = self._add_tile(...)", and the test that follows the loop
AddTile ==
    /\ gpc = "reveal"
    /\ \E result \in add_tile(params, board, new_positions, revealed_tiles,
                              MinesOf(board), spaces) :
        IF result.hang
          THEN /\ gpc' = "hang"
               /\ UNCHANGED revealed_tiles
          ELSE /\ revealed_tiles' = result.revealed
               /\ gpc' = IF Cardinality(result.revealed) < TilesRequired(params)
                           THEN "reveal"
                         ELSE IF Cardinality(result.revealed) > TilesRequired(params)
                           THEN "loop"
                         ELSE "solve"
    /\ UNCHANGED <<params, mine_positions, board, spaces, mines, count,
                   new_positions, fails,
                   hubVars, auxVars>>

\* _, new_positions, solvable = self._solver.puzzle_solve(...): the solver
\* writes neither to the board nor to revealed_tiles and either outcome is
\* taken here.  After a failed solve the head of the loop replaces
\* new_positions before it is read; after a successful one the generator
\* reveals more tiles up to tiles_required and returns revealed_tiles.
PuzzleSolve ==
    /\ gpc = "solve"
    /\ params.variant = "Puzzle"
    /\ \E solvable \in BOOLEAN :
        IF solvable
          THEN LET final == reveal_more(revealed_tiles, TilesRequired(params),
                                        MinesOf(board) \cup always_exclude \cup spaces)
               IN  IF final = {}
                     THEN /\ gpc' = "hang"
                          /\ UNCHANGED revealed_tiles
                     ELSE /\ revealed_tiles' \in final
                          /\ gpc' = "done"
          ELSE /\ gpc' = "loop"
               /\ UNCHANGED revealed_tiles
    /\ UNCHANGED <<params, mine_positions, board, spaces, mines, count,
                   new_positions, fails,
                   hubVars, auxVars>>

GenNext ==
    \/ Construct
    \/ ResetBoard
    \/ GenerateBoard
    \/ SolveBoard
    \/ PickAnchor
    \/ AddTile
    \/ PuzzleSolve

(***************************************************************************)
(* Part III: the seeded random source.  Python's random module is one      *)
(* generator per process (the Mersenne Twister); the model runs a          *)
(* multiplicative congruential generator with RngMod - 1 states in its     *)
(* place.  Every draw is a function of the state and moves the state on.   *)
(***************************************************************************)
\* the characters of the model: digits, letters, the space and one other
Digits == <<"0", "7">>
AsciiLetters == <<"b", "Z">>
Chars == Digits \o AsciiLetters \o <<" ", "!">>

CharCode(c) == CHOOSE i \in DOMAIN Chars : Chars[i] = c

\* the state after one draw
NextRng(rng) == (rng * 3) % RngMod

\* random._randbelow(n)
randbelow(n, rng) == rng % n

\* the fault C12 is tested against: random.seed is not called, the state the
\* process had before goes on
keep_state(seed, prior) == prior

\* random.seed(seed): the new state is a function of the seed alone
RECURSIVE SeedHash(_, _)
SeedHash(seed, h) ==
    IF seed = <<>> THEN (h % (RngMod - 1)) + 1
    ELSE SeedHash(Tail(seed), (h * 7 + CharCode(Head(seed))) % RngMod)

random_seed(seed, prior) == SeedHash(seed, 1)

\* random.choices(population, k): k draws with replacement
RECURSIVE random_choices(_, _, _)
random_choices(population, k, rng) ==
    IF k = 0 THEN [list |-> <<>>, rng |-> rng]
    ELSE LET rest == random_choices(population, k - 1, NextRng(rng))
         IN  [list |-> <<population[randbelow(Len(population), rng) + 1]>> \o rest.list,
              rng |-> rest.rng]

\* Seed._gen_seed
gen_seed(rng) == random_choices(Digits \o AsciiLetters, FreshSeedLen, rng)

\* the fault C18 is tested against: only the length of the seed is validated
InvalidSeedByLength(seed) == Len(seed) > MaxSeedLen

\* the validation of Seed.__init__: the seed is too long or holds a character
\* that is no digit, letter or space
InvalidSeed(seed) ==
    \/ Len(seed) > MaxSeedLen
    \/ \E i \in DOMAIN seed : seed[i] \notin Range(Digits \o AsciiLetters \o <<" ">>)

\* Seed.__init__(seed), in a process whose generator is in the state prior:
\* raised tells whether ValueError was raised, seed is self._seed (empty when
\* the object was not constructed), rng the state of the generator afterwards
SeedInit(seed, prior) ==
    IF seed = <<>>
      THEN LET fresh == gen_seed(prior)
           IN  [raised |-> FALSE, seed |-> fresh.list,
                rng |-> random_seed(fresh.list, fresh.rng)]
    ELSE IF InvalidSeed(seed)
      THEN [raised |-> TRUE, seed |-> <<>>, rng |-> prior]
    ELSE [raised |-> FALSE, seed |-> seed, rng |-> random_seed(seed, prior)]

\* random.shuffle(x): for i in reversed(range(1, len(x))) swap x[i] with
\* x[randbelow(i + 1)].  i counts from 1 here.
RECURSIVE random_shuffle(_, _, _)
random_shuffle(x, i, rng) ==
    IF i < 2 THEN [list |-> x, rng |-> rng]
    ELSE LET j == randbelow(i, rng) + 1
         IN  random_shuffle([x EXCEPT ![i] = x[j], ![j] = x[i]], i - 1, NextRng(rng))

\* for i in range(times): random.shuffle(x)
RECURSIVE shuffle_times(_, _, _)
shuffle_times(x, times, rng) ==
    IF times = 0 THEN [list |-> x, rng |-> rng]
    ELSE LET once == random_shuffle(x, Len(x), rng)
         IN  shuffle_times(once.list, times - 1, once.rng)

\* Seed.generate_mines_list(includes, process_count) with iteration = 0, the
\* only value its callers pass; includes_list is list(includes)
seeded_mines_list(includes_list, p, process_count, rng) ==
    LET excludes == StartExcludes(p.start_pos, directions(p))
        extra_positions ==
            SelectSeq(AllPositions,
                      LAMBDA t : t \notin excludes /\ t \notin Range(includes_list))
        shuffled == shuffle_times(extra_positions, process_count + NumWorkers, rng)
    IN  [list |-> includes_list \o shuffled.list, rng |-> shuffled.rng]

(***************************************************************************)
(* Part III: two Standard generators (BoardGenerator) stepped together,     *)
(* each in a process of its own.                                            *)
(***************************************************************************)
\* the seeds the two generators are constructed with
TwinSeeds == {<<>>, <<"Z">>, <<"b", " ", "7">>, <<"Z", "!">>}

TwinParams == {p \in ParamSpace : p.variant = "Standard"}

\* the states the random generator of a process is in before the generator
\* object is constructed
PriorStates == {1, 2}

NoCopy ==
    [status |-> "idle", seed |-> <<>>, rng |-> 1, mine_positions |-> <<>>,
     board |-> FilledBoard(-2), mines |-> {}, count |-> 0]

\* BoardGenerator.__init__(..., seed, process_count)
NewCopy(p, seed, process_count, prior) ==
    LET seed_gen == SeedInit(seed, prior)
        first == seeded_mines_list(<<>>, p, process_count, seed_gen.rng)
    IN  IF seed_gen.raised
          THEN [NoCopy EXCEPT !.status = "ValueError", !.rng = prior]
          ELSE [NoCopy EXCEPT !.status = "loop", !.seed = seed_gen.seed,
                              !.rng = first.rng, !.mine_positions = first.list]

\* one pass of the loop of generate_no_guess_board: _reset_board,
\* _generate_board, _solver.solve
IterateCopy(g, p, ord) ==
    LET old_mines == IF g.count = 3 THEN {} ELSE g.mines
        list == seeded_mines_list(InOrder(old_mines, ord), p, 0, g.rng)
        result == CHOOSE r \in generate_board(p, FilledBoard(-2), list.list) : TRUE
        solved == solve(p, result.board, {}, ord)
    IN  IF g.status # "loop" THEN g
        ELSE IF result.status # "ok"
          THEN [g EXCEPT !.status = result.status, !.rng = list.rng,
                         !.mine_positions = list.list, !.board = result.board]
        ELSE [status |-> IF solved.solvable THEN "done" ELSE "loop",
              seed |-> g.seed, rng |-> list.rng, mine_positions |-> list.list,
              board |-> result.board, mines |-> solved.mines,
              count |-> IF g.count = 3 THEN 0 ELSE g.count + 1]

InitTwin ==
    twin = [params |-> NoParams, seed |-> <<<<>>, <<>>>>, process_count |-> <<0, 0>>,
            copy |-> <<NoCopy, NoCopy>>]

\* the two generators are constructed, each from its own seed and worker
\* index, in processes whose random generators are in any two states
TwinConstruct ==
    /\ twin.copy[1].status = "idle"
    /\ \E p \in TwinParams :
       \E s1 \in TwinSeeds : \E s2 \in TwinSeeds :
       \E i1 \in 0..(NumWorkers - 1) : \E i2 \in 0..(NumWorkers - 1) :
       \E r1 \in PriorStates : \E r2 \in PriorStates :
         twin' = [params |-> p, seed |-> <<s1, s2>>, process_count |-> <<i1, i2>>,
                  copy |-> <<NewCopy(p, s1, i1, r1), NewCopy(p, s2, i2, r2)>>]
    /\ UNCHANGED <<hubVars, genVars, call, slv>>

\* both generators run one pass of their loop.  The sets they iterate hold
\* integer tuples, which CPython orders by the elements and the insertions
\* made, so that equal histories give equal orders.
TwinIterate ==
    /\ \E c \in 1..2 : twin.copy[c].status = "loop"
    /\ \E ord \in IterOrders :
         twin' = [twin EXCEPT !.copy = <<IterateCopy(twin.copy[1], twin.params, ord),
                                         IterateCopy(twin.copy[2], twin.params, ord)>>]
    /\ UNCHANGED <<hubVars, genVars, call, slv>>

TwinNext ==
    \/ TwinConstruct
    \/ TwinIterate

(***************************************************************************)
(* Part IV: one call of a function that takes a request's parameters.      *)
(***************************************************************************)
NoCall == [fn |-> "none"]

\* the sides the validators are called with: an empty field, the least side
\* and the side of the offset check's grid
CallSides == {0, MinSide, TestGrid}

InitCall == call = NoCall

\* tiles_required as generate_no_guess_board computes it, for every board
\* size and difficulty the settings screen accepts
ComputeTilesRequired ==
    /\ call = NoCall
    /\ \E W \in MinSide..MaxSide : \E H \in MinSide..MaxSide :
       \E d \in 1..DifficultyLimit :
         call' = [fn |-> "tiles_required", W |-> W, H |-> H, d |-> d,
                  ret |-> tiles_required(W, H, d)]
    /\ UNCHANGED <<hubVars, genVars, twin, slv>>

\* a seed of n characters that starts with head and goes on with "7"
Padded(head, n) == [i \in 1..n |-> IF i <= Len(head) THEN head[i] ELSE "7"]

\* the seeds a Seed is constructed with: every string of at most MaxShortSeed
\* characters, and those strings made MaxSeedLen and MaxSeedLen + 1 long
ShortSeeds == UNION {[1..n -> Range(Chars)] : n \in 0..MaxShortSeed}

CallSeeds ==
    ShortSeeds \cup {Padded(h, n) : h \in ShortSeeds, n \in {MaxSeedLen, MaxSeedLen + 1}}

\* Seed(..., seed) in a process whose generator is in any state
ConstructSeed ==
    /\ call = NoCall
    /\ \E seed \in CallSeeds : \E prior \in 1..(RngMod - 1) :
         call' = [fn |-> "Seed", seed |-> seed, prior |-> prior,
                  ret |-> SeedInit(seed, prior)]
    /\ UNCHANGED <<hubVars, genVars, twin, slv>>

\* Validation.minecount(minecount, rows, cols, old_area, spaces, generator)
\* as the settings screen calls it; a side is 0 while its field is empty
ValidateMinecount ==
    /\ call = NoCall
    /\ \E rows \in CallSides : \E cols \in CallSides :
       \E minecount \in 0..MaxCallMines : \E space_count \in 0..MaxCallSpaces :
       \E variant \in Variants :
         call' = [fn |-> "minecount", minecount |-> minecount, rows |-> rows,
                  cols |-> cols, spaces |-> space_count, generator |-> variant,
                  ret |-> minecount_ok(minecount, rows, cols, space_count, variant)]
    /\ UNCHANGED <<hubVars, genVars, twin, slv>>

\* the grid Validation.offset fills and the tile it starts from
Grid == {<<r, c>> : r \in 0..(TestGrid - 1), c \in 0..(TestGrid - 1)}
Centre == <<5, 5>>

\* the tiles of the grid row by row
GridOrder == [i \in 1..(TestGrid * TestGrid) |-> <<(i - 1) \div TestGrid, (i - 1) % TestGrid>>]

Reversed(list) == [i \in 1..Len(list) |-> list[Len(list) + 1 - i]]

\* "for tile in a_set": the tiles of the set in the order the call iterates
\* sets of tiles in
Iterated(S, ord) ==
    LET rowwise == SelectSeq(GridOrder, LAMBDA t : t \in S)
    IN  IF ord = "forward" THEN rowwise ELSE Reversed(rowwise)

\* the fault C20 is tested against: the last row and column are cut off
adjacent_tiles_short(pos, dirs) ==
    {t \in {Add(pos, d) : d \in dirs} :
        0 <= t[1] /\ t[1] < TestGrid - 1 /\ 0 <= t[2] /\ t[2] < TestGrid - 1}

\* Validation._get_adjacent_tiles
adjacent_tiles(pos, dirs) ==
    {t \in {Add(pos, d) : d \in dirs} :
        0 <= t[1] /\ t[1] < TestGrid /\ 0 <= t[2] /\ t[2] < TestGrid}

\* Queue(unique = True).en_queue for each item of a list without repetitions
\* in turn: the items the queue does not hold are appended
en_queue_all(q, items) ==
    q \o SelectSeq(items, LAMBDA t : \A i \in DOMAIN q : q[i] # t)

\* the offsets the settings screen's grid offers, and the lists of
\* directions made of at most MaxOffsets of them
OffsetUniverse ==
    {<<1, 0>>, <<-1, 0>>, <<0, 1>>, <<0, -1>>,
     <<2, 0>>, <<-2, 0>>, <<0, 2>>, <<0, -2>>, <<1, 1>>}

CallDirections == {D \in SUBSET OffsetUniverse : Cardinality(D) <= MaxOffsets}

\* Validation.offset(directions) up to its loop: the queue holds (5, 5)
StartOffset ==
    /\ call = NoCall
    /\ \E D \in CallDirections : \E ord \in {"forward", "backward"} :
         call' = [fn |-> "offset", directions |-> D, ord |-> ord, pc |-> "loop",
                  q |-> <<Centre>>, found_tiles |-> {}, ret |-> FALSE]
    /\ UNCHANGED <<hubVars, genVars, twin, slv>>

\* one pass of "while q.get_len() > 0", or the comparison after the loop
OffsetStep ==
    /\ call.fn = "offset"
    /\ call.pc = "loop"
    /\ IF Len(call.q) > 0
         THEN LET current_tile == Head(call.q)
                  found == call.found_tiles \cup {current_tile}
                  fresh == adjacent_tiles(current_tile, call.directions) \ found
              IN  call' = [call EXCEPT
                             !.found_tiles = found,
                             !.q = en_queue_all(Tail(call.q), Iterated(fresh, call.ord))]
         ELSE call' = [call EXCEPT !.pc = "done",
                                   !.ret = (call.found_tiles = Grid)]
    /\ UNCHANGED <<hubVars, genVars, twin, slv>>

\* the rows the matrix of a call is made of: coefficients -1, 0 and 1 and a
\* right-hand side from -2 to 2
CallRows ==
    {Listed([i \in 1..(MaxMatVars + 1) |-> FromInt(row[i])]) :
        row \in {f \in [1..(MaxMatVars + 1) -> -2..2] :
                   \A i \in 1..MaxMatVars : f[i] \in -1..1}}

\* the variable lists of a call: one tile per column, and a list that names a
\* tile twice
CallVarLists ==
    {[i \in 1..MaxMatVars |-> <<0, i - 1>>],
     [i \in 1..MaxMatVars |-> <<0, (i - 1) % (MaxMatVars - 1)>>]}

\* MatrixSolver._analyse_matrix(mat, var_list); steps[k] is the pair of sets
\* the loop holds after the last k rows
AnalyseMatrix ==
    /\ call = NoCall
    /\ \E rows \in 1..MaxMatRows : \E mat \in [1..rows -> CallRows] :
       \E var_list \in CallVarLists :
         call' = [fn |-> "analyse_matrix", mat |-> mat, var_list |-> var_list,
                  steps |-> [k \in 0..rows |->
                               analyse_matrix(SubSeq(mat, rows - k + 1, rows), var_list)],
                  ret |-> analyse_matrix(mat, var_list)]
    /\ UNCHANGED <<hubVars, genVars, twin, slv>>

\* the tiles the includes and excludes of a single call are taken from
ListTiles == {t \in Tiles : (t[1] + t[2]) % 3 = 0}

\* Seed.generate_mines_list(includes = ..., excludes = ...) on the random
\* source of a generator of the parameter space
GenerateMinesList ==
    /\ call = NoCall
    /\ \E p \in ParamSpace : \E includes \in SUBSET ListTiles :
       \E excludes \in SUBSET ListTiles :
         /\ Cardinality(includes) <= MaxIncludes
         /\ Cardinality(excludes) <= MaxExcludes
         /\ \E ret \in generate_mines_list(includes, excludes, p.start_pos,
                            directions(p), 1, Cardinality(includes) + 1) :
              call' = [fn |-> "generate_mines_list", start_pos |-> p.start_pos,
                       directions |-> directions(p), includes |-> includes,
                       excludes |-> excludes, ret |-> ret]
    /\ UNCHANGED <<hubVars, genVars, twin, slv>>

CallNext ==
    \/ ComputeTilesRequired
    \/ StartOffset
    \/ OffsetStep
    \/ ValidateMinecount
    \/ ConstructSeed

(***************************************************************************)
(* Part V: one run of LogicalSolver.solve, SpaceBoardLogicalSolver.        *)
(* solve_spaces, ChainLogicalSolver.solve or PuzzleSolver.puzzle_solve on  *)
(* a board the matching generator assembled, one pass of the while loop at *)
(* a time.  slv.pass holds what the last pass computed.                    *)
(***************************************************************************)
NoFound == [mines |-> {}, safes |-> {}]

NoPass ==
    [board |-> FilledBoard(-2), borders |-> {}, pattern |-> NoFound,
     chain |-> NoFound, free_mines |-> {}, matrix |-> FALSE, keys |-> <<>>,
     var_list |-> <<>>, mat |-> <<>>, new_mines |-> {}, new_safes |-> {}]

SolverIdle ==
    [pc |-> "idle", p |-> NoParams, answer_board |-> FilledBoard(-2),
     test_board |-> FilledBoard(-2), new_safes |-> {}, old_borders |-> {},
     mines |-> {}, free_mines |-> {}, chain_mines |-> {}, ord |-> <<>>,
     solvable |-> FALSE, pass |-> NoPass,
     ret |-> [mines |-> {}, solvable |-> FALSE], rng |-> 0]

InitSolver == slv = SolverIdle

\* the test board PuzzleSolver.puzzle_solve starts from: the spaces marked,
\* then the revealed tiles copied from the answer board
puzzle_test_board(answer_board, spaces_set, revealed) ==
    Tabled([t \in Tiles |->
        IF t \in revealed THEN answer_board[t]
        ELSE IF t \in spaces_set THEN -3
        ELSE -2])

\* the sets of revealed tiles the Puzzle generator hands to puzzle_solve:
\* tiles_required tiles inside the board that are neither mines nor spaces
PuzzleRevealed(p, answer_board, spaces_set) ==
    {R \in SUBSET (Tiles \ (always_exclude \cup MinesOf(answer_board) \cup spaces_set)) :
        Cardinality(R) = TilesRequired(p)}

\* the solver's local variables when its loop is entered
solver_start(p, answer_board, spaces_set, revealed, ord) ==
    [SolverIdle EXCEPT
        !.pc = "loop", !.p = p, !.answer_board = answer_board, !.ord = ord,
        !.test_board = IF p.variant = "Puzzle"
                         THEN puzzle_test_board(answer_board, spaces_set, revealed)
                         ELSE start_test_board(p, answer_board, spaces_set),
        !.new_safes = IF p.variant = "Puzzle" THEN revealed
                      ELSE start_adjacency(p, spaces_set),
        !.old_borders = IF p.variant = "Puzzle" THEN {} ELSE {p.start_pos}]

\* a solver is constructed and solve is called on a freshly assembled board;
\* slv.rng is the state the process's random source is in at the call
SolverStart ==
    /\ slv.pc = "idle"
    /\ \E p \in ParamSpace : \E ord \in IterOrders :
       \E positions \in generate_mines_list({}, {}, p.start_pos, directions(p),
                                            1, MineReadLast(p)) :
       \E result \in Assemble(p, FilledBoard(-2), positions, {}) :
         /\ result.status = "ok"
         /\ \E revealed \in IF p.variant = "Puzzle"
                              THEN PuzzleRevealed(p, result.board, result.spaces)
                              ELSE {{}} :
              slv' = [solver_start(p, result.board, result.spaces, revealed, ord)
                        EXCEPT !.rng = random_seed(<<"Z">>, 0)]
    /\ UNCHANGED <<hubVars, genVars, twin, call>>

\* what the pass hands to the end of the loop body: the logical pass and the
\* chain rule together, or the matrix when they found nothing
pass_progress(s, logical, chain) ==
    IF logical.mines # {} \/ logical.safes \cup chain.safes # {}
      THEN [mines |-> logical.mines, safes |-> logical.safes \cup chain.safes,
            borders |-> logical.borders]
      ELSE find_progress(s.p, s.test_board, {}, logical.borders, s.free_mines, s.ord)

\* the dictionary keys, the variables and the matrix _find_progress builds
pass_matrix(s, logical) ==
    LET borders == get_border_tiles(s.p, s.test_board, {}, logical.borders)
        keys == var_dict_keys(borders, s.free_mines, s.ord)
        var_list == build_var_list(s.p, keys, s.free_mines, s.test_board, s.ord, <<>>)
    IN  IF borders = {} THEN [keys |-> <<>>, var_list |-> <<>>, mat |-> <<>>]
        ELSE [keys |-> keys, var_list |-> var_list,
              mat |-> build_mat(s.p, keys, var_list, s.free_mines, s.test_board)]

\* the fault C31 is tested against: the mines found are not handed back
unsolvable_return_empty(s) == [mines |-> {}, solvable |-> FALSE]

\* "return mines, False"
unsolvable_return(s) == [mines |-> s.mines, solvable |-> FALSE]

\* the fault C35 is tested against: the copy of a safe tile goes the other way
board_writes_reversed(s, progress) ==
    [test_board |-> Tabled([t \in Tiles |->
                        IF t \in progress.mines THEN -1 ELSE s.test_board[t]]),
     answer_board |-> Tabled([t \in Tiles |->
                        IF t \in progress.safes THEN s.test_board[t]
                        ELSE s.answer_board[t]])]

\* "for row, col in new_safes: test_board[row][col] = answer_board[row][col]"
\* and "for row, col in new_mines: test_board[row][col] = -1": the two boards
\* after the writes
board_writes(s, progress) ==
    [test_board |-> Tabled([t \in Tiles |->
                        IF t \in progress.mines THEN -1
                        ELSE IF t \in progress.safes THEN s.answer_board[t]
                        ELSE s.test_board[t]]),
     answer_board |-> s.answer_board]

\* the solver's local variables after one pass of the loop
pass_end(s, logical, chain, progress, built) ==
    LET tried == logical.mines = {} /\ logical.safes \cup chain.safes = {}
        now_mines == s.mines \cup progress.mines
        now_chain_mines == s.chain_mines \cup chain.mines
        seen == [board |-> s.test_board, borders |-> progress.borders,
                 pattern |-> IF s.p.variant = "Offset" \/ logical.borders = {}
                               THEN NoFound
                               ELSE check_one_two_pattern(s.p, logical.borders,
                                                          s.test_board),
                 chain |-> chain, free_mines |-> s.free_mines, matrix |-> tried,
                 keys |-> IF tried THEN built.keys ELSE <<>>,
                 var_list |-> IF tried THEN built.var_list ELSE <<>>,
                 mat |-> IF tried THEN built.mat ELSE <<>>,
                 new_mines |-> progress.mines, new_safes |-> progress.safes]
    IN  IF progress.mines = {} /\ progress.safes = {}
          THEN [s EXCEPT !.pc = "done", !.solvable = FALSE, !.pass = seen,
                         !.ret = unsolvable_return(s)]
          ELSE [s EXCEPT
                  !.test_board = board_writes(s, progress).test_board,
                  !.answer_board = board_writes(s, progress).answer_board,
                  !.new_safes = progress.safes,
                  !.old_borders = progress.borders,
                  !.mines = now_mines,
                  !.chain_mines = now_chain_mines,
                  !.free_mines = IF s.p.variant = "Chain"
                                   THEN now_mines \ now_chain_mines ELSE {},
                  !.pass = seen]

\* one pass of "while self._check_for_covered_tile(test_board)", or the
\* return that follows the loop
SolverStep ==
    /\ slv.pc = "loop"
    /\ IF \A t \in Tiles : slv.test_board[t] # -2
         THEN slv' = [slv EXCEPT !.pc = "done", !.solvable = TRUE,
                                 !.ret = [mines |-> {}, solvable |-> TRUE]]
         ELSE \E logical \in {find_logical_progress(slv.p, slv.test_board,
                                  slv.new_safes, slv.old_borders, slv.ord)} :
              \E chain \in {IF slv.p.variant = "Chain"
                              THEN resolve_chain(InOrder(slv.free_mines, slv.ord),
                                       slv.free_mines, slv.ord, NoFound)
                              ELSE NoFound} :
              \E progress \in {pass_progress(slv, logical, chain)} :
              \E built \in {pass_matrix(slv, logical)} :
                slv' = pass_end(slv, logical, chain, progress, built)
    /\ UNCHANGED <<hubVars, genVars, twin, call>>

SolverNext ==
    \/ SolverStart
    \/ SolverStep

(***************************************************************************)
(* Part VI: a Puzzle generator in a worker process, running                *)
(* generate_no_guess_board_parallel(start_event).  halt_event is the event *)
(* the worker passes in; the other workers of the pool can set it at any   *)
(* time.  gpc says how the call returned:                                  *)
(*   "cancelled" the while test saw the event set: return revealed_tiles   *)
(*   "none"      the test after puzzle_solve saw it set: return None       *)
(*   "found"     the worker set the event itself: return revealed_tiles    *)
(*   "late"      solvable, the event seen set before setting it: break and *)
(*               return revealed_tiles                                     *)
(***************************************************************************)
PuzzleParamSpace == {p \in ParamSpace : p.variant = "Puzzle"}

otherHubVars ==
    <<task_queue, result_queue, wpc, wtask, wboard, setters, putters, ctlVars>>

\* PuzzleBoardGenerator.__init__, called by gen_board_parallel
ConstructPuzzle == ConstructFrom(PuzzleParamSpace)

\* "while not start_event.is_set():" with the event set: the loop is left and
\* "return revealed_tiles" follows
LoopCancelled ==
    /\ gpc = "loop"
    /\ halt_event
    /\ gpc' = "cancelled"
    /\ UNCHANGED <<params, mine_positions, board, spaces, mines, count, fails,
                   revealed_tiles, new_positions, hubVars, auxVars>>

\* the while test with the event clear, and the head of the loop body
LoopReset ==
    /\ ~halt_event
    /\ ResetBoard

\* PuzzleSolver.puzzle_solve(answer_board, revealed_tiles, spaces): whether
\* the board is solvable from the revealed tiles, and the frontier
puzzle_solve(p, answer_board, revealed, spaces_set, ord) ==
    solve_loop(p, answer_board, puzzle_test_board(answer_board, spaces_set, revealed),
               revealed, {}, {}, {}, {}, ord)

\* _, new_positions, solvable = self._solver.puzzle_solve(...)
SolveParallel ==
    /\ gpc = "solve"
    /\ \E ord \in IterOrders :
       \E result \in {puzzle_solve(params, board, revealed_tiles, spaces, ord)} :
         /\ new_positions' = result.frontier
         /\ gpc' = IF result.solvable THEN "solved" ELSE "failed"
         /\ fails' = IF result.solvable THEN fails ELSE fails + 1
    /\ UNCHANGED <<params, mine_positions, board, spaces, mines, count,
                   revealed_tiles, hubVars, auxVars>>

\* "if start_event.is_set(): return None", then "if solvable:"
CheckCancelled ==
    /\ gpc \in {"solved", "failed"}
    /\ gpc' = IF halt_event THEN "none"
              ELSE IF gpc = "solved" THEN "check"
              ELSE "loop"
    /\ UNCHANGED <<params, mine_positions, board, spaces, mines, count, fails,
                   revealed_tiles, new_positions, hubVars, auxVars>>

\* "if not start_event.is_set():" more tiles are revealed and the event is
\* set; "break" and "return revealed_tiles" either way
RevealAndSet ==
    /\ gpc = "check"
    /\ IF halt_event
         THEN /\ gpc' = "late"
              /\ UNCHANGED <<revealed_tiles, halt_event>>
         ELSE LET final == reveal_more(revealed_tiles, TilesRequired(params),
                                       MinesOf(board) \cup always_exclude \cup spaces)
              IN  IF final = {}
                    THEN /\ gpc' = "hang"
                         /\ UNCHANGED <<revealed_tiles, halt_event>>
                    ELSE /\ revealed_tiles' \in final
                         /\ halt_event' = TRUE
                         /\ gpc' = "found"
    /\ UNCHANGED <<params, mine_positions, board, spaces, mines, count, fails,
                   new_positions, otherHubVars, auxVars>>

\* start_event.set() in another worker of the pool
OtherWorkerSets ==
    /\ gpc \notin {"idle", "cancelled", "none", "found", "late", "hang"}
    /\ ~halt_event
    /\ halt_event' = TRUE
    /\ UNCHANGED <<otherHubVars, genVars, auxVars>>

PuzzleWorkerNext ==
    \/ ConstructPuzzle
    \/ LoopCancelled
    \/ LoopReset
    \/ GenerateBoard
    \/ PickAnchor
    \/ AddTile
    \/ SolveParallel
    \/ CheckCancelled
    \/ RevealAndSet
    \/ OtherWorkerSets

\* what generate_no_guess_board_parallel returned; None is held as a set that
\* no set of tiles of the board and no "full reset" value equals
NoneValue == {<<-1, -1>>}
PuzzleWorkerReturned == gpc \in {"cancelled", "none", "found", "late"}
PuzzleWorkerResult == IF gpc = "none" THEN NoneValue ELSE revealed_tiles

(***************************************************************************)
(* Part VII: one Queue(unique = True) and the calls made on it.  call.q is *)
(* self._q; call.accepted lists the items en_queue appended, call.returned *)
(* the items de_queue returned, call.last describes the last call.         *)
(***************************************************************************)
\* the items put in the queue: the centre of the grid and two tiles next to it
QueueItems == {Centre, <<5, 6>>, <<6, 5>>}

\* the fault C36 is tested against: the item is appended whether held or not
en_queue_any(q, item) == Append(q, item)

\* Queue.en_queue(item) with self._unique true
en_queue(q, item) ==
    IF \E i \in DOMAIN q : q[i] = item THEN q ELSE Append(q, item)

\* Queue.de_queue(): the value returned, None or an item, and self._q after
de_queue(q) ==
    IF Len(q) = 0 THEN [none |-> TRUE, item |-> NullTile, q |-> q]
    ELSE [none |-> FALSE, item |-> Head(q), q |-> Tail(q)]

\* q = Queue(unique = True)
QueueCreate ==
    /\ call = NoCall
    /\ call' = [fn |-> "Queue", q |-> <<>>, accepted |-> <<>>, returned |-> <<>>,
                refused |-> 0, ops |-> 0,
                last |-> [op |-> "init", none |-> FALSE, item |-> NullTile,
                          before |-> <<>>]]
    /\ UNCHANGED <<hubVars, genVars, twin, slv>>

\* q.en_queue(item)
EnQueue ==
    /\ call.fn = "Queue"
    /\ call.ops < MaxQueueOps
    /\ \E item \in QueueItems : \E q \in {en_queue(call.q, item)} :
         call' = [call EXCEPT
                    !.q = q,
                    !.accepted = IF Len(q) > Len(call.q) THEN Append(@, item) ELSE @,
                    !.refused = IF Len(q) > Len(call.q) THEN @ ELSE @ + 1,
                    !.ops = @ + 1,
                    !.last = [op |-> "en_queue", none |-> FALSE, item |-> item,
                              before |-> call.q]]
    /\ UNCHANGED <<hubVars, genVars, twin, slv>>

\* q.de_queue()
DeQueue ==
    /\ call.fn = "Queue"
    /\ call.ops < MaxQueueOps
    /\ \E result \in {de_queue(call.q)} :
         call' = [call EXCEPT
                    !.q = result.q,
                    !.returned = IF result.none THEN @ ELSE Append(@, result.item),
                    !.ops = @ + 1,
                    !.last = [op |-> "de_queue", none |-> result.none,
                              item |-> result.item, before |-> call.q]]
    /\ UNCHANGED <<hubVars, genVars, twin, slv>>

QueueNext ==
    \/ QueueCreate
    \/ EnQueue
    \/ DeQueue

(***************************************************************************)
(* The specifications: Spec and FairSpec run the worker pool and leave the *)
(* generator object idle, GenSpec runs one generator and leaves the pool    *)
(* idle.                                                                    *)
(***************************************************************************)
Init == InitHub /\ InitGen /\ InitTwin /\ InitCall /\ InitSolver

Next ==
    \/ start_game
    \/ \E w \in Workers : worker(w)

Spec == Init /\ [][Next]_vars

\* every worker process and the controller keep being scheduled
FairSpec ==
    /\ Spec
    /\ \A w \in Workers : WF_vars(worker(w))
    /\ WF_vars(start_game)

GenSpec == Init /\ [][GenNext]_vars

\* a generator run on arguments that were not validated, up to the first
\* assembly of a board
UncheckedNext ==
    \/ ConstructUnchecked
    \/ ResetBoard
    \/ GenerateBoard

UncheckedSpec == Init /\ [][UncheckedNext]_vars

TwinSpec == Init /\ [][TwinNext]_vars

CallSpec == Init /\ [][CallNext]_vars

\* single calls of MatrixSolver._analyse_matrix
MatrixSpec == Init /\ [][AnalyseMatrix]_vars

\* single calls of Seed.generate_mines_list
MinesListSpec == Init /\ [][GenerateMinesList]_vars

PuzzleWorkerSpec == Init /\ [][PuzzleWorkerNext]_vars

\* calls on one Queue(unique = True)
QueueSpec == Init /\ [][QueueNext]_vars

SolverSpec == Init /\ [][SolverNext]_vars

\* the loop of Validation.offset is straight-line code in one thread: a pass
\* that can be made is made
FairCallSpec == CallSpec /\ WF_vars(OffsetStep)

(***************************************************************************)
(* Part I: properties                                                      *)
(***************************************************************************)

\* C1: the result read for a batch was produced by a task of that batch;
\* a result of an earlier batch is never the one read for a later batch.
C1_ReadOwnRequest ==
    \A b \in DOMAIN published : published[b].batch = b

\* C2: every board the controller reads is one whose producing worker's last
\* solver call returned solvable = True.
C2_ReadSolvable ==
    \A b \in DOMAIN published :
        published[b].assembled /\ published[b].solvable

\* C3: a worker that left its generation loop because it saw the flag set,
\* without a solvable board of its own, puts nothing on the result queue.
C3_CancelledPutsNothing ==
    \A i \in DOMAIN result_queue : ~result_queue[i].cancelled

\* C4: once set, the flag is cleared by the controller only; no step of a
\* worker turns it off.
C4_ClearedByControllerOnly ==
    [][(halt_event /\ ~halt_event') => wpc' = wpc]_vars

\* C5: once a worker has set the flag for a batch, every other worker that is
\* inside the generation loop on a task of that batch eventually is back at
\* task_queue.get().
C5_OthersLeaveLoop ==
    \A w1 \in Workers : \A w2 \in Workers \ {w1} :
        (/\ <<wtask[w2].batch, w1>> \in setters
         /\ wpc[w2] \in LoopPcs)
        ~> (wpc[w2] = "get")

\* C6: per batch at most one worker both sets the flag and puts a result.
C6_SingleWinner ==
    \A p \in setters \cap putters : \A q \in setters \cap putters :
        p[1] = q[1] => p[2] = q[2]

\* C13: two workers that run tasks of the same batch were given different
\* worker indices (process_count), whatever the variant.
C13_DistinctWorkerIndex ==
    \A w1 \in Workers : \A w2 \in Workers \ {w1} :
        (/\ wpc[w1] # "get"
         /\ wpc[w2] # "get"
         /\ wtask[w1].batch = wtask[w2].batch)
        => wtask[w1].process_count # wtask[w2].process_count

(***************************************************************************)
(* Part II: properties                                                     *)
(***************************************************************************)
\* a board has been assembled since the last reset: _reset_board leaves
\* every cell at -2, an assembler leaves none
IsAssembled == board # FilledBoard(-2)

\* the adjacency D of a variant as the specification states it: the user's
\* offsets for Offset, the eight neighbours otherwise
AdjacencyD(p) ==
    IF p.variant = "Offset" THEN Range(p.D)
    ELSE {d \in (-1..1) \X (-1..1) : d # <<0, 0>>}

\* the mines m a cell c counts: those with m - c in D
CountedMines(p, b, c) ==
    {m \in MinesOf(b) : <<m[1] - c[1], m[2] - c[2]>> \in AdjacencyD(p)}

\* the closed neighbourhood of the start position: P0 and every P0 + d
StartClosure(p) ==
    {p.start_pos} \cup {Add(p.start_pos, d) : d \in AdjacencyD(p)}

\* C7: on every assembled board, in every variant, each cell that is neither
\* a mine nor a space holds exactly the number of mines m with m - c in the
\* variant's adjacency D.
C7_CluesCountMines ==
    IsAssembled =>
        \A c \in Tiles :
            board[c] \notin {-1, -3} =>
                board[c] = Cardinality(CountedMines(params, board, c))

\* an Offset board on which a clue counts a mine through an offset whose
\* opposite is not in D
C7_Witness ==
    /\ IsAssembled
    /\ params.variant = "Offset"
    /\ \E c \in Tiles : \E m \in CountedMines(params, board, c) :
        /\ board[c] >= 1
        /\ <<c[1] - m[1], c[2] - m[2]>> \notin AdjacencyD(params)

\* C8: in every non-puzzle variant, after any sequence of full and partial
\* resets, the assembled board has no mine in the closed neighbourhood of the
\* start position, so the cell at the start position equals 0; also when the
\* candidate list was rebuilt with the mines the solver deduced.
C8_StartIsSafe ==
    (IsAssembled /\ params.variant # "Puzzle") =>
        /\ MinesOf(board) \cap StartClosure(params) = {}
        /\ board[params.start_pos] = 0

\* a board assembled after the third partial reset in a row, from a list
\* rebuilt around the mines the solver deduced on the board before it, all of
\* which are mines again
C8_Witness ==
    /\ gpc = "solve"
    /\ params.variant # "Puzzle"
    /\ count = 3
    /\ mines # {}
    /\ mines \subseteq MinesOf(board)

\* C9: every assembled board holds exactly M mines, in every variant and for
\* every admissible M; the Chain generator stops with exactly M mines placed.
C9_ExactlyM ==
    IsAssembled => Cardinality(MinesOf(board)) = params.minecount

OrthogonalMines(b, m) == get_orthogonal_adj(m) \cap MinesOf(b)

\* C11: on every board assembled by the Chain generator every mine is
\* orthogonally adjacent to exactly one other mine, its partner; so no mine
\* of one chain is orthogonally adjacent to a mine of another chain.
C11_ChainPairs ==
    (IsAssembled /\ params.variant = "Chain") =>
        \A m \in MinesOf(board) : Cardinality(OrthogonalMines(board, m)) = 1

\* a Chain board with two chains, assembled from a list rebuilt around mines
\* the solver deduced
C11_Witness ==
    /\ gpc = "solve"
    /\ params.variant = "Chain"
    /\ Cardinality(MinesOf(board)) = 4
    /\ mines # {}

\* C14: the revealed set a Puzzle generator ends with holds exactly
\* tiles_required tiles.
C14_RevealedIsT ==
    (gpc = "done" /\ params.variant = "Puzzle") =>
        Cardinality(revealed_tiles) = TilesRequired(params)

\* a Puzzle generator ended with a board assembled after a full reset
C14_Witness ==
    /\ gpc = "done"
    /\ params.variant = "Puzzle"
    /\ new_positions # {}
    /\ Cardinality(revealed_tiles) = TilesRequired(params)

\* C15: every tile of the revealed set a Puzzle generator ends with lies
\* strictly inside the board and holds a clue: it is no mine and no space.
C15_RevealedInside ==
    (gpc = "done" /\ params.variant = "Puzzle") =>
        \A r \in revealed_tiles :
            /\ r \in Tiles
            /\ 0 < r[1] /\ r[1] < n_rows - 1
            /\ 0 < r[2] /\ r[2] < n_cols - 1
            /\ board[r] >= 0

\* a Puzzle generator ended, on a board with a space, with the anchor tile
\* and a tile drawn as a new island revealed
C15_Witness ==
    /\ gpc = "done"
    /\ params.variant = "Puzzle"
    /\ spaces # {}
    /\ new_positions # {}
    /\ new_positions \subseteq revealed_tiles
    /\ revealed_tiles \ new_positions # {}

\* C17: when the admissible positions and the includes are fewer than
\* minecount, generation ends in an error when the candidate list is first
\* used: it neither goes round for ever nor hands a board on.
C17_InfeasibleFails ==
    (params # NoParams /\ Infeasible(params))
        => gpc \in {"idle", "first", "loop", "generate", "IndexError"}

\* C23: a full reset happens exactly when three solves have failed since the
\* last full reset; every other reset is partial.
C23_FullResetAfterThree ==
    [][(gpc = "loop" /\ gpc' = "generate" /\ params.variant # "Puzzle")
          => ((count' = 0) <=> (fails = 3))]_vars

\* C24: after a partial reset the mines the last solve deduced are mines of
\* the next assembled board.
C24_PartialKeepsMines ==
    [][(gpc = "generate" /\ gpc' = "solve" /\ count # 0)
          => mines \subseteq MinesOf(board')]_vars

(***************************************************************************)
(* Part III: properties                                                    *)
(***************************************************************************)
\* the two generators were given the same non-empty seed and the same worker
\* index, and the first was constructed (the seed is valid)
SameInputs ==
    /\ twin.copy[1].status \notin {"idle", "ValueError"}
    /\ twin.seed[1] = twin.seed[2]
    /\ twin.seed[1] # <<>>
    /\ twin.process_count[1] = twin.process_count[2]

RECURSIVE Pow10(_)
Pow10(k) == IF k = 0 THEN 1 ELSE 10 * Pow10(k - 1)

\* the least k with 10^k >= x, which is ceil(log10(x)) for x >= 1
CeilLog10(x) == CHOOSE k \in 0..6 : Pow10(k) >= x /\ \A j \in 0..(k - 1) : Pow10(j) < x

\* C16 as claimed: the cap is min(ceil(log10((d+1) W H)) d, floor(W H / 5)).
C16_CapAsClaimed ==
    call.fn = "tiles_required" =>
        call.ret = Min(CeilLog10((call.d + 1) * call.W * call.H) * call.d,
                       (call.W * call.H) \div 5)

\* C16 as amended: the cap is min(n d, floor(W H / 5)) where n is the number
\* of decimal digits of (d+1) W H, that is floor(log10((d+1) W H)) + 1.
C16_CapIsDigitCount ==
    call.fn = "tiles_required" =>
        \E n \in 1..6 :
            /\ Pow10(n - 1) <= (call.d + 1) * call.W * call.H
            /\ (call.d + 1) * call.W * call.H < Pow10(n)
            /\ call.ret = Min(n * call.d, (call.W * call.H) \div 5)

\* the cap of a 10 by 10 board at difficulty 2 was computed, and is 6
C16_Witness ==
    /\ call.fn = "tiles_required"
    /\ call.W = 10 /\ call.H = 10 /\ call.d = 2
    /\ call.ret = 6

\* a character of [A-Za-z0-9 ], among the characters of the model
InSeedAlphabet(c) == c \in {"0", "7", "b", "Z", " "}

\* C18: a non-empty seed of more than 10 characters, or with a character
\* outside [A-Za-z0-9 ], raises the error and leaves the PRNG as it was; any
\* other non-empty seed is recorded unchanged; an empty seed is replaced by
\* a recorded seed of 10 letters and digits.
C18_SeedValidation ==
    call.fn = "Seed" =>
        LET bad == \/ Len(call.seed) > 10
                   \/ \E i \in DOMAIN call.seed : ~InSeedAlphabet(call.seed[i])
        IN  /\ (call.seed # <<>> /\ bad)
                => (call.ret.raised /\ call.ret.rng = call.prior)
            /\ (call.seed # <<>> /\ ~bad)
                => (~call.ret.raised /\ call.ret.seed = call.seed)
            /\ call.seed = <<>>
                => /\ ~call.ret.raised
                   /\ Len(call.ret.seed) = 10
                   /\ \A i \in DOMAIN call.ret.seed :
                        InSeedAlphabet(call.ret.seed[i]) /\ call.ret.seed[i] # " "

\* a seed with a character outside the alphabet was refused
C18_Witness ==
    /\ call.fn = "Seed"
    /\ call.seed = <<"Z", "!">>
    /\ call.ret.raised
    /\ call.ret.rng = call.prior

\* C19 as claimed: a request is accepted iff M >= 1 and M / (W H) <= 0.20
\* for Standard, (M + S) / (W H) <= 0.19 for a space-supporting variant
\* whatever S.
C19_DensityAsClaimed ==
    (call.fn = "minecount" /\ call.generator \in {"Standard", "Space", "Offset", "Puzzle"}) =>
        call.ret = (/\ call.minecount >= 1
                    /\ IF call.generator = "Standard"
                         THEN 5 * call.minecount <= call.rows * call.cols
                         ELSE 100 * (call.minecount + call.spaces)
                                  <= 19 * call.rows * call.cols)

\* C19 as amended: a request is accepted iff M >= 1 and (M + S) / (W H) <= 0.19
\* for a space-supporting variant with S >= 1, M / (W H) <= 0.20 for Standard
\* and for any variant with S = 0.
C19_DensityRule ==
    (call.fn = "minecount" /\ call.generator \in {"Standard", "Space", "Offset", "Puzzle"}) =>
        call.ret = (/\ call.minecount >= 1
                    /\ IF call.generator # "Standard" /\ call.spaces >= 1
                         THEN 100 * (call.minecount + call.spaces)
                                  <= 19 * call.rows * call.cols
                         ELSE 5 * call.minecount <= call.rows * call.cols)

\* 20 mines on a Standard 10 by 10 board were accepted
C19_Witness ==
    /\ call.fn = "minecount"
    /\ call.generator = "Standard"
    /\ call.rows = 10 /\ call.cols = 10
    /\ call.minecount = 20
    /\ call.ret

\* the tiles reachable from (5, 5) by applying offsets of D any number of
\* times without leaving the grid: S with all that is reachable from the
\* tiles of S found last
RECURSIVE Reachable(_, _, _)
Reachable(S, last, D) ==
    LET next == (UNION {{Add(u, d) : d \in D} : u \in last} \cap Grid) \ S
    IN  IF next = {} THEN S ELSE Reachable(S \cup next, next, D)

\* C20: the flood fill of the offset check ends for every D, and it accepts D
\* exactly when every tile of the 10 by 10 grid is reachable from (5, 5) by
\* repeated application of offsets of D.
C20_OffsetCheck ==
    /\ [](call.fn = "offset" /\ call.pc = "done"
            => call.ret = (Reachable({Centre}, {Centre}, call.directions) = Grid))
    /\ (call.fn = "offset") ~> (call.fn = "offset" /\ call.pc = "done")

\* the check of the diamond ended and accepted it
C20_Witness ==
    /\ call.fn = "offset"
    /\ call.directions = {<<1, 0>>, <<-1, 0>>, <<0, 1>>, <<0, -1>>,
                          <<2, 0>>, <<-2, 0>>, <<0, 2>>, <<0, -2>>}
    /\ call.pc = "done"
    /\ call.ret

(***************************************************************************)
(* Part V: properties of the solvers                                       *)
(***************************************************************************)
SolverRan == slv.pc \in {"loop", "done"}

\* C21: in a run of the Standard, Space, Offset or Puzzle solver every tile a
\* pass reports as a mine is a mine of the answer board and no tile it reports
\* as safe is one, so every uncovered tile of the test board shows the answer
\* board's number, and a run that ends solvable has rebuilt the answer board.
C21_SolverSound ==
    (SolverRan /\ slv.p.variant \in {"Standard", "Space", "Offset", "Puzzle"}) =>
        /\ slv.pass.new_mines \subseteq MinesOf(slv.answer_board)
        /\ slv.pass.new_safes \cap MinesOf(slv.answer_board) = {}
        /\ slv.mines \subseteq MinesOf(slv.answer_board)
        /\ \A t \in Tiles :
             /\ slv.test_board[t] = -1 => t \in slv.mines
             /\ slv.test_board[t] \notin {-1, -2} =>
                  (slv.test_board[t] = slv.answer_board[t] /\ slv.answer_board[t] # -1)
        /\ (slv.pc = "done" /\ slv.solvable) => slv.test_board = slv.answer_board

\* a pass of one of these solvers found a mine and a safe tile with the matrix
C21_Witness ==
    /\ SolverRan
    /\ slv.p.variant \in {"Standard", "Space", "Offset", "Puzzle"}
    /\ slv.pass.matrix
    /\ slv.pass.new_mines # {}
    /\ slv.pass.new_safes # {}

\* the orthogonal neighbours of the pairs among the given mines, the pairs
\* themselves left out
PairNeighbours(flagged) ==
    UNION {(get_orthogonal_adj(mine) \cup get_orthogonal_adj(partner)) \ {mine, partner} :
             <<mine, partner>> \in {pair \in flagged \X flagged :
                                      pair[2] \in get_orthogonal_adj(pair[1])}}

\* C22: in a run of the Chain solver the pairing rule reports as safe exactly
\* the other orthogonal neighbours of the flagged mines that are orthogonally
\* adjacent and of their partners, and none of them is a mine.
C22_ChainPairing ==
    (SolverRan /\ slv.p.variant = "Chain") =>
        /\ slv.pass.chain.safes = PairNeighbours(slv.pass.free_mines)
        /\ slv.pass.chain.safes \cap MinesOf(slv.answer_board) = {}

\* the revealed numbered cells of a test board with a covered neighbour
BorderCells(p, b) ==
    {t \in Tiles : b[t] >= 0 /\ \E n \in solver_adjacent_tiles(p, t) : b[n] = -2}

\* C26: the border set of every pass is exactly the set of revealed numbered
\* cells of the test board that have a covered neighbour.
C26_BordersExact ==
    (SolverRan /\ slv.pass # NoPass) =>
        slv.pass.borders = BorderCells(slv.p, slv.pass.board)

\* a pass built a matrix
MatrixBuilt == SolverRan /\ slv.pass.matrix /\ slv.pass.keys # <<>>

\* the matrix of the pass ends with a row of unit coefficients whose
\* right-hand side is the minecount less the flagged cells
HasGlobalRow ==
    LET mat == slv.pass.mat
        n == Len(slv.pass.var_list)
        flagged == {t \in Tiles : slv.pass.board[t] = -1}
    IN  /\ Len(mat) = Len(slv.pass.keys) + 1
        /\ \A i \in 1..n : mat[Len(mat)][i] = FromInt(1)
        /\ mat[Len(mat)][n + 1] = FromInt(slv.p.minecount - Cardinality(flagged))

\* C29: the matrix holds the global row iff its variables are all the covered
\* cells of the test board, and one row per dictionary key otherwise; in Chain
\* mode the variables include the covered orthogonal neighbours of the
\* unpaired mines.
C29_GlobalRow ==
    MatrixBuilt =>
        /\ HasGlobalRow <=>
             (Range(slv.pass.var_list) = {t \in Tiles : slv.pass.board[t] = -2})
        /\ ~HasGlobalRow => Len(slv.pass.mat) = Len(slv.pass.keys)
        /\ \A mine \in slv.pass.free_mines :
             {t \in get_orthogonal_adj(mine) : slv.pass.board[t] = -2}
                 \subseteq Range(slv.pass.var_list)

\* a Chain pass with an unpaired mine built a matrix with the global row
C29_Witness ==
    /\ MatrixBuilt
    /\ HasGlobalRow
    /\ slv.p.variant = "Chain"
    /\ slv.pass.free_mines # {}

\* the covered neighbours of a cell of the test board of the pass
CoveredAround(c) ==
    {t \in solver_adjacent_tiles(slv.p, c) : slv.pass.board[t] = -2}

\* the number a cell of the test board shows less the flagged cells around it
EffectiveValue(c) ==
    slv.pass.board[c]
      - Cardinality({t \in solver_adjacent_tiles(slv.p, c) : slv.pass.board[t] = -1})

\* the pairs the 1-2 pattern is about: orthogonally adjacent border cells with
\* the effective values 2 and 1, one covered neighbour of the 2-cell unshared
OneTwoPairs ==
    {pair \in slv.pass.borders \X slv.pass.borders :
        /\ pair[2] \in get_orthogonal_adj(pair[1])
        /\ EffectiveValue(pair[1]) = 2
        /\ EffectiveValue(pair[2]) = 1
        /\ Cardinality(CoveredAround(pair[1]) \ CoveredAround(pair[2])) = 1}

\* C30: the tiles the 1-2 pattern reports are, for the pairs it is about, the
\* unshared covered neighbour of the 2-cell as a mine and the covered
\* neighbours only the 1-cell has as safe, and nothing for any other pair.
C30_OneTwoPattern ==
    (SolverRan /\ slv.pass # NoPass /\ slv.p.variant # "Offset") =>
        /\ slv.pass.pattern.mines =
             UNION {CoveredAround(pair[1]) \ CoveredAround(pair[2]) : pair \in OneTwoPairs}
        /\ slv.pass.pattern.safes =
             UNION {CoveredAround(pair[2]) \ CoveredAround(pair[1]) : pair \in OneTwoPairs}

\* the pattern fired in a pass and reported a mine and a safe tile
C30_Witness ==
    /\ SolverRan
    /\ slv.p.variant # "Offset"
    /\ slv.pass.pattern.mines # {}
    /\ slv.pass.pattern.safes # {}

(***************************************************************************)
(* Part IV: properties of the matrix analysis                              *)
(***************************************************************************)
\* C27: the two sets _analyse_matrix returns have no tile in common.
C27_Disjoint ==
    (call.fn = "analyse_matrix") => call.ret.mines \cap call.ret.safes = {}

\* a call whose result holds mines and safes, from a list that names a tile
\* twice
C27_Witness ==
    /\ call.fn = "analyse_matrix"
    /\ call.ret.mines # {}
    /\ call.ret.safes # {}
    /\ \E i, j \in DOMAIN call.var_list : i # j /\ call.var_list[i] = call.var_list[j]

\* the sum of the integer coefficients a row has at the given columns
RECURSIVE CoefSum(_, _)
CoefSum(row, columns) ==
    IF columns = {} THEN 0
    ELSE LET i == CHOOSE i \in columns : TRUE
         IN  row[i][1] + CoefSum(row, columns \ {i})

\* what the claim says one row does to the sets known before it
RowRule(row, var_list, known) ==
    LET n == Len(var_list)
        open == {i \in 1..n : var_list[i] \notin known.mines \cup known.safes}
        negative == {i \in open : row[i][1] < 0}
        positive == {i \in open : row[i][1] > 0}
        fixed == {i \in 1..n : row[i][1] # 0 /\ var_list[i] \in known.mines}
        r == row[n + 1][1]
        Vars(columns) == {var_list[i] : i \in columns}
    IN  IF r = CoefSum(row, negative \cup fixed)
          THEN [mines |-> known.mines \cup Vars(negative),
                safes |-> known.safes \cup Vars(positive)]
        ELSE IF r = CoefSum(row, positive \cup fixed)
          THEN [mines |-> known.mines \cup Vars(positive),
                safes |-> known.safes \cup Vars(negative)]
        ELSE known

\* the call's variable list names every tile once
DistinctVars ==
    \A i, j \in DOMAIN call.var_list : call.var_list[i] = call.var_list[j] => i = j

\* C28: going bottom-up, each row whose right-hand side equals its lower bound
\* adds its unclassified negative variables to the mines and its unclassified
\* positive ones to the safes, each row whose right-hand side equals its upper
\* bound the converse, and every other row adds nothing.
C28_RowRule ==
    (call.fn = "analyse_matrix" /\ DistinctVars) =>
        LET rows == Len(call.mat)
        IN  /\ call.ret = call.steps[rows]
            /\ \A k \in 0..(rows - 1) :
                 call.steps[k + 1] =
                     RowRule(call.mat[rows - k], call.var_list, call.steps[k])

\* a call in which the upper row classifies a variable with the help of what
\* the lower row found
C28_Witness ==
    /\ call.fn = "analyse_matrix"
    /\ DistinctVars
    /\ Len(call.mat) = 2
    /\ call.steps[1].mines # {}
    /\ call.steps[2] # call.steps[1]
    /\ call.steps[2] # analyse_matrix(SubSeq(call.mat, 1, 1), call.var_list)

(***************************************************************************)
(* Part VI: properties of the Puzzle worker                                *)
(***************************************************************************)
\* C25: a Puzzle worker that stops because the event is set returns None, and
\* a revealed set it returns is neither the "full reset" value nor the set of
\* a board whose last solve failed.
C25_CancelledReturnsNone ==
    PuzzleWorkerReturned =>
        /\ gpc \in {"cancelled", "none"} => PuzzleWorkerResult = NoneValue
        /\ PuzzleWorkerResult # NoneValue =>
             /\ PuzzleWorkerResult # FullReset(TilesRequired(params))
             /\ fails = 0

(***************************************************************************)
(* Part V: properties of the solver's loop                                 *)
(***************************************************************************)
\* the test board has a covered cell
HasCovered(b) == \E t \in Tiles : b[t] = -2

\* the variants whose generator calls solve or solve_spaces
SolveVariants == {"Standard", "Space", "Offset"}

\* C31: solve returns (empty, true) exactly when the test board has no covered
\* cell, and (mines_found, false) exactly when the logical pass and then the
\* matrix found nothing in one pass; mines_found is then every tile flagged in
\* the passes before.
C31_SolveReturns ==
    [][(slv.pc = "loop" /\ slv.p.variant \in SolveVariants) =>
         /\ ~HasCovered(slv.test_board) <=>
              (slv'.pc = "done" /\ slv'.ret = [mines |-> {}, solvable |-> TRUE])
         /\ (/\ HasCovered(slv.test_board)
             /\ slv'.pass.matrix
             /\ slv'.pass.new_mines = {}
             /\ slv'.pass.new_safes = {}) <=>
              (/\ slv'.pc = "done"
               /\ slv'.ret = [mines |-> {t \in Tiles : slv.test_board[t] = -1},
                              solvable |-> FALSE])
         /\ slv'.pc \in {"loop", "done"}]_vars

\* solve returned unsolvable with mines it had flagged
C31_Witness ==
    /\ slv.pc = "done"
    /\ slv.p.variant \in SolveVariants
    /\ ~slv.ret.solvable
    /\ slv.ret.mines # {}

\* the number of covered cells of a test board
CoveredCount(b) == Cardinality({t \in Tiles : b[t] = -2})

\* C32: every pass of a solver that does not return uncovers or flags a
\* covered cell, or in Chain mode pairs a mine that was not paired; the two
\* counts are bounded by the board, so the passes of a call are finitely many.
C32_SolverTerminates ==
    [][(slv.pc = "loop" /\ slv'.pc = "loop") =>
         \/ CoveredCount(slv'.test_board) < CoveredCount(slv.test_board)
         \/ /\ slv.p.variant = "Chain"
            /\ slv.chain_mines \subseteq slv'.chain_mines
            /\ slv.chain_mines # slv'.chain_mines]_vars

\* a Chain pass that did not return, paired two mines and uncovered a cell
C32_Witness ==
    /\ slv.pc = "loop"
    /\ slv.pass # NoPass
    /\ slv.pass.chain.mines # {}
    /\ CoveredCount(slv.test_board) < CoveredCount(slv.pass.board)

(***************************************************************************)
(* Part VI: properties of the Puzzle loop                                  *)
(***************************************************************************)
\* C33: puzzle_solve is called only with exactly tiles_required revealed
\* tiles; after a failed solve the next step of the loop, unless the call is
\* cancelled, is the full reset (the board cleared for a new one, the
\* revealed set emptied), and a tile is revealed only on a board no solve of
\* which has failed, so the frontier of a failed solve is never read.
C33_FailedSolveResets ==
    [][/\ gpc' = "solve" => Cardinality(revealed_tiles') = TilesRequired(params')
       /\ gpc = "failed" => gpc' \in {"failed", "none", "loop"}
       /\ (gpc = "loop" /\ fails > 0 /\ gpc' # "loop") =>
             \/ gpc' = "cancelled"
             \/ /\ gpc' = "generate"
                /\ board' = FilledBoard(-2)
                /\ revealed_tiles' = {}
                /\ fails' = 0
       /\ gpc = "reveal" => fails = 0
       /\ gpc = "anchor" => fails = 0]_vars

\* a new board has been assembled after a failed solve, and the frontier of
\* that solve is about to be replaced by the anchor tile
C33_Witness ==
    /\ gpc = "anchor"
    /\ fails = 0
    /\ revealed_tiles = {}
    /\ Cardinality(new_positions) > 1

(***************************************************************************)
(* Part IV: properties of the candidate list                               *)
(***************************************************************************)
\* the start position and every tile one offset of the list away from it
ClosedNeighbourhood(start_pos, dirs) ==
    {start_pos} \cup {<<start_pos[1] + d[1], start_pos[2] + d[2]>> : d \in Range(dirs)}

\* C34: the list generate_mines_list returns has no entry twice, its first
\* |includes| entries are the includes, and the entries after them are the
\* tiles of the board that are neither includes nor excludes of the caller
\* nor in the closed neighbourhood of the start position.
C34_MinesList ==
    call.fn = "generate_mines_list" =>
        LET ret == call.ret
            k == Cardinality(call.includes)
        IN  /\ \A i, j \in DOMAIN ret : i # j => ret[i] # ret[j]
            /\ Len(ret) >= k
            /\ {ret[i] : i \in 1..k} = call.includes
            /\ {ret[i] : i \in (k + 1)..Len(ret)} =
                 {t \in Tiles : /\ t \notin call.includes
                                /\ t \notin call.excludes
                                /\ t \notin ClosedNeighbourhood(call.start_pos,
                                                                call.directions)}

\* a call with two includes, one of them next to the start position, and an
\* exclude away from it
C34_Witness ==
    /\ call.fn = "generate_mines_list"
    /\ Cardinality(call.includes) = 2
    /\ \E t \in call.includes :
         t \in ClosedNeighbourhood(call.start_pos, call.directions)
    /\ \E t \in call.excludes :
         t \notin ClosedNeighbourhood(call.start_pos, call.directions)

(***************************************************************************)
(* Part V: what a solver leaves alone                                      *)
(***************************************************************************)
\* C35: no pass of solve, solve_spaces or puzzle_solve, and no return, changes
\* the answer board the call was given or the state of the random source.
C35_SolverFrame ==
    [][slv.pc = "loop" =>
         /\ slv'.answer_board = slv.answer_board
         /\ slv'.rng = slv.rng]_vars

\* a pass that built the matrix and wrote what it found to the test board
C35_Witness ==
    /\ slv.pc = "loop"
    /\ slv.pass.matrix
    /\ slv.pass.new_safes # {}
    /\ slv.test_board # slv.pass.board
    /\ slv.p.variant \in {"Standard", "Space", "Puzzle"}

(***************************************************************************)
(* Part VII: properties of the Queue                                       *)
(***************************************************************************)
\* C36: a Queue(unique = True) never holds an item twice; the items de_queue
\* has returned, followed by the items still held, are the items en_queue
\* accepted, in the order it accepted them; de_queue on an empty queue
\* returns None and leaves the queue empty, and on any other queue it
\* returns the item at the front.
C36_UniqueQueue ==
    call.fn = "Queue" =>
        /\ \A i, j \in DOMAIN call.q : i # j => call.q[i] # call.q[j]
        /\ call.returned \o call.q = call.accepted
        /\ call.last.op = "de_queue" =>
             IF call.last.before = <<>>
               THEN call.last.none /\ call.q = <<>>
               ELSE /\ ~call.last.none
                    /\ call.last.item = Head(call.last.before)

\* de_queue has just returned None, after two items were returned in turn
\* and an item the queue held was refused
C36_Witness ==
    /\ call.fn = "Queue"
    /\ call.last.op = "de_queue"
    /\ call.last.none
    /\ Len(call.returned) >= 2
    /\ call.refused >= 1

(***************************************************************************)
(* Part II: properties of the constructed generator                        *)
(***************************************************************************)
\* C37: once a generator is constructed, its list of directions, the one
\* _get_adjacent_tiles walks, does not hold (0, 0).
C37_NoSelfOffset ==
    gpc # "idle" => <<0, 0>> \notin Range(directions(params))

====
